---- MODULE Spec2Model ----
(***************************************************************************)
(* A model of the cron-expression engine (cronUtils): parseCronExpression, *)
(* validateCronExpression, matchesField and the occurrence search of       *)
(* getNextExecutionTime.                                                    *)
(*                                                                         *)
(* Text is a sequence of one-character strings, so that trim, split,       *)
(* includes and parseInt are computed as the JavaScript code computes      *)
(* them.  An instant is a number of seconds since 1970-01-01T00:00:00 of   *)
(* the local clock; the local clock is taken to have no daylight-saving    *)
(* transitions.  The sub-minute part of a reference instant stands for     *)
(* its seconds and milliseconds, which Date.setSeconds(0, 0) clears        *)
(* together.                                                               *)
(***************************************************************************)
EXTENDS Integers, Sequences, FiniteSets, TLC

VARIABLES
    expression,  \* the text passed to getNextExecutionTime
    fromDate,    \* the reference instant passed to it
    pc,          \* "call", "loop" or "done"
    parsed,      \* the five fields of the parsed expression
    current,     \* the cursor
    iterations,  \* the loop counter
    startYear,   \* the year of the initial cursor
    branch,      \* the branch the last pass of the loop took
    taken,       \* the branches taken so far
    result,      \* what the call returned, once it has
    shape,       \* how the text was built
    parseResult, \* what parseCronExpression returned
    validationResult, \* what validateCronExpression returned
    description, \* what getHumanReadableDescription returned
    errorProps,  \* the error each CronField editor is given, once rendered
    state,       \* the state of the App component: cronExpression, fields, ...
    effects,     \* the effects of the last commit still to run, in order
    mounted,     \* whether the App is on the page
    event        \* the last event the App handled

\* What a call of getNextExecutionTime reads and writes, the text apart.
searchVars == <<fromDate, parsed, current, iterations, startYear, branch, taken, result>>

\* What the other entry points leave.
engineVars == <<shape, parseResult, validationResult, description, errorProps>>

\* What the App component holds.
appVars == <<state, effects, mounted, event>>

vars == <<expression, pc, searchVars, engineVars, appVars>>

----------------------------------------------------------------------------
(* String primitives of JavaScript, on sequences of characters.            *)

Digits == <<"0", "1", "2", "3", "4", "5", "6", "7", "8", "9">>

UpperCase == <<"A", "B", "C", "D", "E", "F", "G", "H", "I", "J", "K", "L", "M",
               "N", "O", "P", "Q", "R", "S", "T", "U", "V", "W", "X", "Y", "Z">>

LowerCase == <<"a", "b", "c", "d", "e", "f", "g", "h", "i", "j", "k", "l", "m",
               "n", "o", "p", "q", "r", "s", "t", "u", "v", "w", "x", "y", "z">>

\* The characters the regular expression \s matches and trim() removes.
WhiteSpace == {" ", "\t", "\n"}

\* The one element of a set of one element.
The(S) == CHOOSE x \in S : TRUE

IsDigit(c) == \E i \in 1..10 : Digits[i] = c

DigitValue(c) == (CHOOSE i \in 1..10 : Digits[i] = c) - 1

\* String.prototype.toLowerCase, one character.
lowerChar(c) ==
    IF \E i \in 1..26 : UpperCase[i] = c
    THEN LowerCase[CHOOSE i \in 1..26 : UpperCase[i] = c]
    ELSE c

toLowerCase(s) == [i \in 1..Len(s) |-> lowerChar(s[i])]

\* String.prototype.trim: leading and trailing white space removed.
trim(s) ==
    LET keep == {i \in 1..Len(s) : s[i] \notin WhiteSpace}
    IN  IF keep = {} THEN <<>>
        ELSE LET lo == CHOOSE i \in keep : \A j \in keep : i <= j
                 hi == CHOOSE i \in keep : \A j \in keep : j <= i
             IN  SubSeq(s, lo, hi)

\* String.prototype.includes, for a one-character needle.
includes(s, c) == \E i \in 1..Len(s) : s[i] = c

\* String.prototype.split(sep) for a one-character separator: the pieces
\* between the separators, empty pieces kept.
RECURSIVE split(_, _)
split(s, sep) ==
    IF ~includes(s, sep) THEN <<s>>
    ELSE The({<<SubSeq(x, 1, i - 1)>> \o split(SubSeq(x, i + 1, Len(x)), sep) :
                 x \in {s},
                 i \in {k \in 1..Len(s) : s[k] = sep /\ \A j \in 1..(k - 1) : s[j] # sep}})

\* String.prototype.split(/\s+/): the pieces between runs of white space.  A
\* leading or trailing run gives an empty first or last piece, and the empty
\* string gives one empty piece.
\* The text after the run of white space it starts with.
afterWhiteSpace(rest) ==
    SubSeq(rest, 1 + Cardinality({n \in 1..Len(rest) : \A j \in 1..n : rest[j] \in WhiteSpace}),
           Len(rest))

RECURSIVE splitWhiteSpace(_)
splitWhiteSpace(s) ==
    IF \A i \in 1..Len(s) : s[i] \notin WhiteSpace THEN <<s>>
    ELSE The({<<SubSeq(x, 1, i - 1)>> \o splitWhiteSpace(afterWhiteSpace(SubSeq(x, i, Len(x)))) :
                 x \in {s},
                 i \in {k \in 1..Len(s) :
                           s[k] \in WhiteSpace /\ \A j \in 1..(k - 1) : s[j] \notin WhiteSpace}})

\* The value of a run of decimal digits.
RECURSIVE digitsValue(_)
digitsValue(ds) ==
    IF ds = <<>> THEN 0
    ELSE 10 * digitsValue(SubSeq(ds, 1, Len(ds) - 1)) + DigitValue(ds[Len(ds)])

NaN == [isNaN |-> TRUE, n |-> 0]

Number(n) == [isNaN |-> FALSE, n |-> n]

\* The text after its leading white space.
skipWhiteSpace(s) ==
    IF \A i \in 1..Len(s) : s[i] \in WhiteSpace THEN <<>>
    ELSE SubSeq(s, CHOOSE i \in 1..Len(s) :
                      s[i] \notin WhiteSpace /\ \A j \in 1..(i - 1) : s[j] \in WhiteSpace,
                Len(s))

\* The longest run of digits a text starts with.
leadingDigits(s) ==
    IF \A i \in 1..Len(s) : IsDigit(s[i]) THEN s
    ELSE SubSeq(s, 1, (CHOOSE i \in 1..Len(s) :
                          ~IsDigit(s[i]) /\ \A j \in 1..(i - 1) : IsDigit(s[j])) - 1)

unsignedInt(ds, sign) == IF ds = <<>> THEN NaN ELSE Number(sign * digitsValue(ds))

digitsOf(t, sign) == The({unsignedInt(ds, sign) : ds \in {leadingDigits(t)}})

signedInt(t) ==
    IF t # <<>> /\ t[1] \in {"-", "+"}
    THEN digitsOf(Tail(t), IF t[1] = "-" THEN 0 - 1 ELSE 1)
    ELSE digitsOf(t, 1)

\* parseInt(s, 10): leading white space is skipped, then an optional sign,
\* then the longest run of digits; what follows the digits is ignored.  The
\* result is NaN when there is no digit at that place.
parseInt(s) == The({signedInt(t) : t \in {skipWhiteSpace(s)}})

isNaN(v) == v.isNaN

----------------------------------------------------------------------------
(* The calendar of Date, after ECMAScript's Day, TimeWithinDay, DayFromYear,*)
(* YearFromTime, MonthFromTime, DateFromTime, WeekDay, MakeDay, MakeDate.   *)

\* floor(a / b) for b > 0, also for a negative a.
Floor(a, b) == IF a >= 0 THEN a \div b ELSE 0 - ((b - 1 - a) \div b)

DayFromYear(y) ==
    365 * (y - 1970) + Floor(y - 1969, 4) - Floor(y - 1901, 100) + Floor(y - 1601, 400)

InLeapYear(y) == DayFromYear(y + 1) - DayFromYear(y) = 366

\* The days before the first of month m (0 = January) in a year.
DaysBeforeMonth(m, leap) ==
    LET common == <<0, 31, 59, 90, 120, 151, 181, 212, 243, 273, 304, 334, 365>>
    IN  common[m + 1] + (IF leap /\ m >= 2 THEN 1 ELSE 0)

Day(t) == Floor(t, 86400)

\* YearFromTime of a day number.
YearFromDay(d) ==
    CHOOSE y \in (1970 + Floor(d, 366))..(1970 + Floor(d, 365) + 1) :
        DayFromYear(y) <= d /\ d < DayFromYear(y + 1)

\* MonthFromTime of the day `within` (0 = 1 January) of a year.
MonthFromDay(within, leap) ==
    CHOOSE m \in 0..11 :
        /\ DaysBeforeMonth(m, leap) <= within
        /\ within < DaysBeforeMonth(m + 1, leap)

CivilInMonth(t, d, y, m) ==
    [year |-> y, month |-> m,
     date |-> d - DayFromYear(y) - DaysBeforeMonth(m, InLeapYear(y)) + 1,
     day |-> (d + 4) % 7,
     hours |-> (t - d * 86400) \div 3600,
     minutes |-> ((t - d * 86400) % 3600) \div 60,
     seconds |-> (t - d * 86400) % 60]

CivilInYear(t, d, y) ==
    The({CivilInMonth(t, d, y, m) : m \in {MonthFromDay(d - DayFromYear(y), InLeapYear(y))}})

CivilOfDay(t, d) == The({CivilInYear(t, d, y) : y \in {YearFromDay(d)}})

\* YearFromTime, MonthFromTime, DateFromTime, WeekDay, HourFromTime,
\* MinFromTime and SecFromTime of an instant, computed together.
Civil(t) == The({CivilOfDay(x, Day(x)) : x \in {t}})

getFullYear(t) == Civil(t).year

\* Date.prototype.getMonth: 0 (January) to 11 (December).
getMonth(t) == Civil(t).month

\* Date.prototype.getDate: the day of the month, 1 to 31.
getDate(t) == Civil(t).date

\* Date.prototype.getDay: 0 = Sunday ... 6 = Saturday (1970-01-01 was a Thursday).
getDay(t) == Civil(t).day

getHours(t) == Civil(t).hours

getMinutes(t) == Civil(t).minutes

getSeconds(t) == Civil(t).seconds

\* MakeDay: a month outside 0..11 carries into the year, a date outside the
\* month carries into the following (or preceding) months.
MakeDay(year, month, date) ==
    LET ym == year + Floor(month, 12)
        mn == month - 12 * Floor(month, 12)
    IN  DayFromYear(ym) + DaysBeforeMonth(mn, InLeapYear(ym)) + date - 1

\* MakeDate(MakeDay(..), MakeTime(..)): hours, minutes and seconds outside
\* their range carry into the day.
MakeDate(year, month, date, hours, minutes, seconds) ==
    MakeDay(year, month, date) * 86400
        + hours * 3600 + minutes * 60 + seconds

\* The setters of Date used by the search.  Each replaces one component and
\* lets an out-of-range value carry.
setSeconds(t, s) ==
    The({MakeDate(c.year, c.month, c.date, c.hours, c.minutes, s) : c \in {Civil(t)}})

setMinutes(t, mi) ==
    The({MakeDate(c.year, c.month, c.date, c.hours, mi, c.seconds) : c \in {Civil(t)}})

setHours(t, h) ==
    The({MakeDate(c.year, c.month, c.date, h, c.minutes, c.seconds) : c \in {Civil(t)}})

setDate(t, d) ==
    The({MakeDate(c.year, c.month, d, c.hours, c.minutes, c.seconds) : c \in {Civil(t)}})

setMonth(t, m) ==
    The({MakeDate(c.year, m, c.date, c.hours, c.minutes, c.seconds) : c \in {Civil(t)}})

\* new Date(year, month - 1, date, hours, minutes, seconds), month 1..12.
DateOf(year, month, date, hours, minutes, seconds) ==
    MakeDate(year, month - 1, date, hours, minutes, seconds)

----------------------------------------------------------------------------
(* Parsing and validation.                                                 *)

\* FIELD_RANGES: the inclusive domain of each field.
FIELD_RANGES ==
    [minute |-> <<0, 59>>, hour |-> <<0, 23>>, day |-> <<1, 31>>,
     month |-> <<1, 12>>, weekday |-> <<0, 7>>]

\* PREDEFINED: the own properties of the alias table.
PREDEFINED ==
    { [key |-> <<"@", "y", "e", "a", "r", "l", "y">>,
       value |-> <<"0", " ", "0", " ", "1", " ", "1", " ", "*">>],
      [key |-> <<"@", "a", "n", "n", "u", "a", "l", "l", "y">>,
       value |-> <<"0", " ", "0", " ", "1", " ", "1", " ", "*">>],
      [key |-> <<"@", "m", "o", "n", "t", "h", "l", "y">>,
       value |-> <<"0", " ", "0", " ", "1", " ", "*", " ", "*">>],
      [key |-> <<"@", "w", "e", "e", "k", "l", "y">>,
       value |-> <<"0", " ", "0", " ", "*", " ", "*", " ", "0">>],
      [key |-> <<"@", "d", "a", "i", "l", "y">>,
       value |-> <<"0", " ", "0", " ", "*", " ", "*", " ", "*">>],
      [key |-> <<"@", "h", "o", "u", "r", "l", "y">>,
       value |-> <<"0", " ", "*", " ", "*", " ", "*", " ", "*">>],
      [key |-> <<"@", "m", "i", "n", "u", "t", "e", "l", "y">>,
       value |-> <<"*", " ", "*", " ", "*", " ", "*", " ", "*">>] }

\* PREDEFINED is an object literal, so a property the table does not own is
\* looked up in Object.prototype.  These are the names found there; each
\* holds a function or an object, never a string.
ObjectPrototypeNames ==
    { <<"c", "o", "n", "s", "t", "r", "u", "c", "t", "o", "r">>,
      <<"_", "_", "p", "r", "o", "t", "o", "_", "_">>,
      <<"t", "o", "S", "t", "r", "i", "n", "g">>,
      <<"t", "o", "L", "o", "c", "a", "l", "e", "S", "t", "r", "i", "n", "g">>,
      <<"v", "a", "l", "u", "e", "O", "f">>,
      <<"h", "a", "s", "O", "w", "n", "P", "r", "o", "p", "e", "r", "t", "y">>,
      <<"i", "s", "P", "r", "o", "t", "o", "t", "y", "p", "e", "O", "f">>,
      <<"p", "r", "o", "p", "e", "r", "t", "y", "I", "s", "E", "n", "u", "m", "e",
        "r", "a", "b", "l", "e">> }

\* PREDEFINED[normalized]: the alias text, an inherited non-string value, or
\* undefined.
PredefinedLookup(normalized) ==
    IF \E e \in PREDEFINED : e.key = normalized
    THEN [kind |-> "string", value |-> (CHOOSE e \in PREDEFINED : e.key = normalized).value]
    ELSE IF normalized \in ObjectPrototypeNames
         THEN [kind |-> "object", value |-> <<>>]
         ELSE [kind |-> "undefined", value |-> <<>>]

NoFields == [minute |-> <<>>, hour |-> <<>>, day |-> <<>>, month |-> <<>>, weekday |-> <<>>]

\* The tail of parseCronExpression: the count of the pieces, and the pieces
\* by position.
parseParts(parts) ==
    IF Len(parts) # 5
    THEN [threw |-> FALSE, valid |-> FALSE,
          error |-> "Cron expression must have exactly 5 fields", fields |-> NoFields]
    ELSE [threw |-> FALSE, valid |-> TRUE, error |-> "",
          fields |-> [minute |-> parts[1], hour |-> parts[2], day |-> parts[3],
                      month |-> parts[4], weekday |-> parts[5]]]

\* parseCronExpression once PREDEFINED[normalized] is known.  A truthy value
\* replaces the expression; one that is not a string has no trim method, and
\* the call of trim on it raises a TypeError (threw).
parseWith(text, found) ==
    IF found.kind = "object"
    THEN [threw |-> TRUE, valid |-> FALSE, error |-> "", fields |-> NoFields]
    ELSE The({parseParts(parts) :
                 parts \in {splitWhiteSpace(trim(IF found.kind = "string" THEN found.value ELSE text))}})

parseNormalized(text, normalized) ==
    The({parseWith(text, found) : found \in {PredefinedLookup(normalized)}})

parseCronExpression(text) ==
    The({parseNormalized(text, normalized) : normalized \in {toLowerCase(trim(text))}})

Valid == [valid |-> TRUE, error |-> "", fieldName |-> "", part |-> <<>>]

Invalid(message, fieldName, part) ==
    [valid |-> FALSE, error |-> message, fieldName |-> fieldName, part |-> part]

\* The same test without the order of the endpoints.
invalidEndsUnordered(start, end, range) ==
    \/ isNaN(start)
    \/ isNaN(end)
    \/ start.n < range[1]
    \/ end.n > range[2]

\* isNaN(start) || isNaN(end) || start < range[0] || end > range[1] || start > end
invalidEnds(start, end, range) ==
    \/ isNaN(start)
    \/ isNaN(end)
    \/ start.n < range[1]
    \/ end.n > range[2]
    \/ start.n > end.n

\* The check of a range a-b: the first two pieces are the endpoints.
invalidRange(pieces, range) ==
    \E start \in {parseInt(pieces[1])}, end \in {parseInt(pieces[2])} :
        invalidEnds(start, end, range)

\* The same test without the lower end of the domain.
invalidNumberAbove(num, range) == isNaN(num) \/ num.n > range[2]

\* isNaN(num) || num < range[0] || num > range[1]
invalidNumber(num, range) == isNaN(num) \/ num.n < range[1] \/ num.n > range[2]

\* A part with a slash whose range part is examined before its step.
validateStepLast(rangePart, step, fieldName, range) ==
    IF rangePart # <<"*">> /\ includes(rangePart, "-")
          /\ \E pieces \in {split(rangePart, "-")} : invalidRange(pieces, range)
    THEN Invalid("Invalid range in ${fieldName}", fieldName, <<>>)
    ELSE IF rangePart # <<"*">> /\ ~includes(rangePart, "-")
               /\ \E num \in {parseInt(rangePart)} : invalidNumber(num, range)
    THEN Invalid("Invalid value in ${fieldName}", fieldName, <<>>)
    ELSE IF isNaN(step) \/ step.n <= 0
    THEN Invalid("Invalid step value in ${fieldName}", fieldName, <<>>)
    ELSE Valid

\* A part with a slash: the step, then the range part.
validateStep(rangePart, step, fieldName, range) ==
    IF isNaN(step) \/ step.n <= 0
    THEN Invalid("Invalid step value in ${fieldName}", fieldName, <<>>)
    ELSE IF rangePart = <<"*">> THEN Valid
    ELSE IF includes(rangePart, "-")
    THEN IF \E pieces \in {split(rangePart, "-")} : invalidRange(pieces, range)
         THEN Invalid("Invalid range in ${fieldName}", fieldName, <<>>)
         ELSE Valid
    ELSE IF \E num \in {parseInt(rangePart)} : invalidNumber(num, range)
         THEN Invalid("Invalid value in ${fieldName}", fieldName, <<>>)
         ELSE Valid

stepPieces(pieces, fieldName, range) ==
    The({validateStep(pieces[1], step, fieldName, range) : step \in {parseInt(pieces[2])}})

\* The body of validateField's loop for one comma-separated part: Valid when
\* the loop goes on to the next part, the error when it returns.
validatePart(part, fieldName, range) ==
    IF includes(part, "/")
    THEN The({stepPieces(pieces, fieldName, range) : pieces \in {split(part, "/")}})
    ELSE IF includes(part, "-")
    THEN IF \E pieces \in {split(part, "-")} : invalidRange(pieces, range)
         THEN Invalid("Invalid range in ${fieldName}", fieldName, <<>>)
         ELSE Valid
    ELSE IF \E num \in {parseInt(part)} : invalidNumber(num, range)
         THEN Invalid("Invalid value in ${fieldName}: ${part}", fieldName, part)
         ELSE Valid

\* The last check that is not valid, whatever came before it.
lastInvalid(checks) ==
    IF \A i \in 1..Len(checks) : checks[i].valid THEN Valid
    ELSE checks[CHOOSE i \in 1..Len(checks) :
                    ~checks[i].valid /\ \A j \in (i + 1)..Len(checks) : checks[j].valid]

\* The first check, in order, that is not valid; Valid when all are.
firstInvalid(checks) ==
    IF \A i \in 1..Len(checks) : checks[i].valid THEN Valid
    ELSE checks[CHOOSE i \in 1..Len(checks) :
                    ~checks[i].valid /\ \A j \in 1..(i - 1) : checks[j].valid]

validateParts(parts, fieldName, range) ==
    The({firstInvalid(checks) :
            checks \in {[i \in 1..Len(parts) |-> validatePart(parts[i], fieldName, range)]}})

\* validateField: the error of the first part that fails, in order.
validateField(field, fieldName, range) ==
    IF field = <<"*">> THEN Valid
    ELSE The({validateParts(parts, fieldName, range) : parts \in {split(field, ",")}})

\* The order in which validateCronExpression checks the fields.
FieldOrder == <<"minute", "hour", "day", "month", "weekday">>

validateFields(fields) ==
    The({firstInvalid(checks) :
            checks \in {[i \in 1..5 |->
                validateField(fields[FieldOrder[i]], FieldOrder[i], FIELD_RANGES[FieldOrder[i]])]}})

withThrew(check, threw) ==
    [threw |-> threw, valid |-> check.valid, error |-> check.error,
     fieldName |-> check.fieldName, part |-> check.part]

validateParsed(p) ==
    IF p.threw THEN withThrew(Invalid("", "", <<>>), TRUE)
    ELSE IF ~p.valid THEN withThrew(Invalid(p.error, "", <<>>), FALSE)
    ELSE withThrew(validateFields(p.fields), FALSE)

\* validateCronExpression: the parse error, or the error of the first field
\* that fails in the order minute, hour, day, month, weekday.
validateCronExpression(text) == The({validateParsed(p) : p \in {parseCronExpression(text)}})

----------------------------------------------------------------------------
(* getHumanReadableDescription.                                            *)

MONTH_NAMES ==
    <<<<"J", "a", "n">>, <<"F", "e", "b">>, <<"M", "a", "r">>, <<"A", "p", "r">>, <<"M", "a", "y">>, <<"J", "u", "n">>,
      <<"J", "u", "l">>, <<"A", "u", "g">>, <<"S", "e", "p">>, <<"O", "c", "t">>, <<"N", "o", "v">>, <<"D", "e", "c">>>>

WEEKDAY_NAMES == <<<<"S", "u", "n">>, <<"M", "o", "n">>, <<"T", "u", "e">>, <<"W", "e", "d">>, <<"T", "h", "u">>, <<"F", "r", "i">>, <<"S", "a", "t">>>>

\* names[index] in a template: the name, or the text of undefined when the
\* index is NaN or outside the array.
nameAt(names, index) ==
    IF isNaN(index) \/ index.n < 0 \/ index.n >= Len(names)
    THEN <<"u", "n", "d", "e", "f", "i", "n", "e", "d">>
    ELSE names[index.n + 1]

\* MONTH_NAMES[parseInt(m) - 1]
monthName(m) ==
    LET num == parseInt(m)
    IN  nameAt(MONTH_NAMES, IF isNaN(num) THEN NaN ELSE Number(num.n - 1))

\* WEEKDAY_NAMES[parseInt(w) % 7]; the remainder has the sign of the number.
weekdayName(w) ==
    LET num == parseInt(w)
    IN  nameAt(WEEKDAY_NAMES,
               IF isNaN(num) THEN NaN
               ELSE IF num.n >= 0 THEN Number(num.n % 7)
               ELSE Number(0 - ((0 - num.n) % 7)))

\* String.prototype.padStart(2, '0')
padStart(s) ==
    IF Len(s) >= 2 THEN s
    ELSE IF Len(s) = 1 THEN <<"0">> \o s
    ELSE <<"0", "0">>

\* Array.prototype.join(', ')
RECURSIVE join(_)
join(pieces) ==
    IF pieces = <<>> THEN <<>>
    ELSE IF Len(pieces) = 1 THEN pieces[1]
    ELSE pieces[1] \o <<",", " ">> \o join(Tail(pieces))

\* The number a text is converted to by a comparison: white space around it
\* is dropped, the empty text is 0, a run of digits with an optional sign is
\* its value and any other text is NaN.  (Texts with a decimal point, an
\* exponent or a radix prefix are not among the inputs.)
toNumber(s) ==
    LET t == trim(s)
        u == IF t # <<>> /\ t[1] \in {"-", "+"} THEN Tail(t) ELSE t
    IN  IF t = <<>> THEN Number(0)
        ELSE IF u # <<>> /\ \A i \in 1..Len(u) : IsDigit(u[i]) THEN signedInt(t)
        ELSE NaN

\* ${step > 1 ? 's' : ''}
plural(step) ==
    IF \E num \in {toNumber(step)} : ~isNaN(num) /\ num.n > 1 THEN <<"s">> ELSE <<>>

\* every ${step} <unit>${step > 1 ? 's' : ''}, the step being what follows
\* the first slash of the field.
stepClause(field, unit) ==
    LET step == split(field, "/")[2]
    IN  <<"e", "v", "e", "r", "y", " ">> \o step \o unit \o plural(step)

\* ${list.length > 1 ? 's' : ''}
several(pieces) == IF Len(pieces) > 1 THEN <<"s">> ELSE <<>>

\* The minute description.
minuteDescription(minute) ==
    IF minute = <<"*">> THEN <<"e", "v", "e", "r", "y", " ", "m", "i", "n", "u", "t", "e">>
    ELSE IF includes(minute, "/") THEN stepClause(minute, <<" ", "m", "i", "n", "u", "t", "e">>)
    ELSE IF includes(minute, "-")
    THEN LET pieces == split(minute, "-")
         IN  <<"f", "r", "o", "m", " ", "m", "i", "n", "u", "t", "e", " ">> \o pieces[1] \o <<" ", "t", "o", " ">> \o pieces[2]
    ELSE IF includes(minute, ",")
    THEN LET pieces == split(minute, ",")
         IN  <<"a", "t", " ", "m", "i", "n", "u", "t", "e">> \o several(pieces) \o <<" ">>
                 \o join([i \in 1..Len(pieces) |-> padStart(pieces[i])])
    ELSE <<"a", "t", " ", "m", "i", "n", "u", "t", "e", " ">> \o padStart(minute)

\* !minute.includes(',') && !minute.includes('-') && !minute.includes('/')
isPlain(field) == ~includes(field, ",") /\ ~includes(field, "-") /\ ~includes(field, "/")

\* The return from inside the hour description: the hour is one value and
\* the minute has no list, range or step.
returnsAtTime(p) == p.hour # <<"*">> /\ isPlain(p.hour) /\ isPlain(p.minute)

\* `At ${hour}:${minute}`, the minute of a wildcard being 00.
atTime(p) ==
    <<"A", "t", " ">> \o padStart(p.hour) \o <<":">>
        \o (IF p.minute = <<"*">> THEN <<"0", "0">> ELSE padStart(p.minute))

\* The hour description: the clauses it pushes.
hourDescription(hour) ==
    IF hour = <<"*">> THEN <<>>
    ELSE IF includes(hour, "/") THEN <<stepClause(hour, <<" ", "h", "o", "u", "r">>)>>
    ELSE IF includes(hour, "-")
    THEN LET pieces == split(hour, "-")
         IN  <<<<"f", "r", "o", "m", " ">> \o padStart(pieces[1]) \o <<":", "0", "0", " ", "t", "o", " ">> \o padStart(pieces[2]) \o <<":", "5", "9">>>>
    ELSE IF includes(hour, ",")
    THEN LET pieces == split(hour, ",")
         IN  <<<<"a", "t", " ", "h", "o", "u", "r">> \o several(pieces) \o <<" ">>
                  \o join([i \in 1..Len(pieces) |-> padStart(pieces[i])])>>
    ELSE <<<<"a", "t", " ", "h", "o", "u", "r", " ">> \o padStart(hour)>>

\* The day description.
dayDescription(day) ==
    IF day = <<"*">> THEN <<>>
    ELSE IF includes(day, "/") THEN <<stepClause(day, <<" ", "d", "a", "y">>)>>
    ELSE IF includes(day, "-")
    THEN LET pieces == split(day, "-")
         IN  <<<<"f", "r", "o", "m", " ", "d", "a", "y", " ">> \o pieces[1] \o <<" ", "t", "o", " ">> \o pieces[2]>>
    ELSE IF includes(day, ",")
    THEN LET pieces == split(day, ",")
         IN  <<<<"o", "n", " ", "d", "a", "y">> \o several(pieces) \o <<" ">> \o join(pieces)>>
    ELSE <<<<"o", "n", " ", "d", "a", "y", " ">> \o day>>

\* The month description.
monthDescription(month) ==
    IF month = <<"*">> THEN <<>>
    ELSE IF includes(month, "/") THEN <<stepClause(month, <<" ", "m", "o", "n", "t", "h">>)>>
    ELSE IF includes(month, "-")
    THEN LET pieces == split(month, "-")
         IN  <<<<"f", "r", "o", "m", " ">> \o monthName(pieces[1]) \o <<" ", "t", "o", " ">> \o monthName(pieces[2])>>
    ELSE IF includes(month, ",")
    THEN LET pieces == split(month, ",")
         IN  <<<<"i", "n", " ">> \o join([i \in 1..Len(pieces) |-> monthName(pieces[i])])>>
    ELSE <<<<"i", "n", " ">> \o monthName(month)>>

\* The weekday description.
weekdayDescription(weekday) ==
    IF weekday = <<"*">> THEN <<>>
    ELSE IF includes(weekday, "/") THEN <<stepClause(weekday, <<" ", "w", "e", "e", "k", "d", "a", "y">>)>>
    ELSE IF includes(weekday, "-")
    THEN LET pieces == split(weekday, "-")
         IN  <<<<"f", "r", "o", "m", " ">> \o weekdayName(pieces[1]) \o <<" ", "t", "o", " ">> \o weekdayName(pieces[2])>>
    ELSE IF includes(weekday, ",")
    THEN LET pieces == split(weekday, ",")
         IN  <<<<"o", "n", " ">> \o join([i \in 1..Len(pieces) |-> weekdayName(pieces[i])])>>
    ELSE <<<<"o", "n", " ">> \o weekdayName(weekday)>>

\* The array parts when the end of the function is reached.
descriptionParts(p) ==
    <<minuteDescription(p.minute)>> \o hourDescription(p.hour) \o dayDescription(p.day)
        \o monthDescription(p.month) \o weekdayDescription(p.weekday)

\* The special case at the end: one hour and one minute.
isTimeFormat(p) ==
    /\ p.hour # <<"*">> /\ isPlain(p.hour)
    /\ p.minute # <<"*">> /\ isPlain(p.minute)

\* The description built from the five fields: the return from the hour
\* description, else the special case at the end with
\* rest = parts.slice(2).join(', '), else the clauses joined.
builtDescription(p) ==
    IF returnsAtTime(p) THEN atTime(p)
    ELSE LET parts == descriptionParts(p)
             rest == join(SubSeq(parts, 3, Len(parts)))
         IN  IF isTimeFormat(p)
             THEN IF rest # <<>> THEN atTime(p) \o <<",", " ">> \o rest ELSE atTime(p)
             ELSE join(parts)

predefinedNames ==
    { [key |-> <<"@", "y", "e", "a", "r", "l", "y">>, value |-> <<"O", "n", "c", "e", " ", "a", " ", "y", "e", "a", "r", " ", "(", "J", "a", "n", "u", "a", "r", "y", " ", "1", "s", "t", " ", "a", "t", " ", "0", "0", ":", "0", "0", ")">>],
      [key |-> <<"@", "a", "n", "n", "u", "a", "l", "l", "y">>, value |-> <<"O", "n", "c", "e", " ", "a", " ", "y", "e", "a", "r", " ", "(", "J", "a", "n", "u", "a", "r", "y", " ", "1", "s", "t", " ", "a", "t", " ", "0", "0", ":", "0", "0", ")">>],
      [key |-> <<"@", "m", "o", "n", "t", "h", "l", "y">>, value |-> <<"O", "n", "c", "e", " ", "a", " ", "m", "o", "n", "t", "h", " ", "(", "1", "s", "t", " ", "d", "a", "y", " ", "a", "t", " ", "0", "0", ":", "0", "0", ")">>],
      [key |-> <<"@", "w", "e", "e", "k", "l", "y">>, value |-> <<"O", "n", "c", "e", " ", "a", " ", "w", "e", "e", "k", " ", "(", "S", "u", "n", "d", "a", "y", " ", "a", "t", " ", "0", "0", ":", "0", "0", ")">>],
      [key |-> <<"@", "d", "a", "i", "l", "y">>, value |-> <<"O", "n", "c", "e", " ", "a", " ", "d", "a", "y", " ", "(", "a", "t", " ", "0", "0", ":", "0", "0", ")">>],
      [key |-> <<"@", "h", "o", "u", "r", "l", "y">>, value |-> <<"O", "n", "c", "e", " ", "a", "n", " ", "h", "o", "u", "r", " ", "(", "a", "t", " ", "m", "i", "n", "u", "t", "e", " ", "0", ")">>],
      [key |-> <<"@", "m", "i", "n", "u", "t", "e", "l", "y">>, value |-> <<"E", "v", "e", "r", "y", " ", "m", "i", "n", "u", "t", "e">>] }

\* predefinedNames[normalized] || expression
predefinedName(normalized, text) ==
    IF \E e \in predefinedNames : e.key = normalized /\ e.value # <<>>
    THEN (CHOOSE e \in predefinedNames : e.key = normalized).value
    ELSE text

InvalidCronExpression == <<"I", "n", "v", "a", "l", "i", "d", " ", "c", "r", "o", "n", " ", "e", "x", "p", "r", "e", "s", "s", "i", "o", "n">>

\* The function once the expression is known to be valid: the name of an
\* alias when PREDEFINED[normalized] is truthy, else the built description.
describeValid(text, normalized) ==
    [threw |-> FALSE,
     text |-> IF PredefinedLookup(normalized).kind # "undefined"
              THEN predefinedName(normalized, text)
              ELSE The({builtDescription(p.fields) : p \in {parseCronExpression(text)}})]

\* The function without the return of the literal.
describeUnvalidated(text, check) ==
    IF check.threw THEN [threw |-> TRUE, text |-> <<>>]
    ELSE The({describeValid(text, normalized) : normalized \in {toLowerCase(trim(text))}})

describeValidated(text, check) ==
    IF check.threw THEN [threw |-> TRUE, text |-> <<>>]
    ELSE IF ~check.valid THEN [threw |-> FALSE, text |-> InvalidCronExpression]
    ELSE The({describeValid(text, normalized) : normalized \in {toLowerCase(trim(text))}})

\* getHumanReadableDescription: the literal for an expression the validation
\* rejects; an exception raised by the validation leaves the call.
getHumanReadableDescription(text) ==
    The({describeValidated(text, check) : check \in {validateCronExpression(text)}})

----------------------------------------------------------------------------
(* The field matcher.                                                      *)

\* value >= num and value <= num; a comparison with NaN is false.
atLeast(value, num) == ~isNaN(num) /\ value >= num.n

atMost(value, num) == ~isNaN(num) /\ value <= num.n

\* a % b === 0, for a number a and a parsed b: the remainder by NaN or by 0
\* is NaN, and the remainder has the sign of a.
remainderIsZero(a, b) ==
    /\ ~isNaN(b)
    /\ b.n # 0
    /\ (IF a < 0 THEN 0 - a ELSE a) % (IF b.n < 0 THEN 0 - b.n ELSE b.n) = 0

\* (value - start) % step === 0
onStep(value, start, step) == ~isNaN(start) /\ remainderIsZero(value - start.n, step)

rangeStepMatches(value, start, end, step) ==
    atLeast(value, start) /\ atMost(value, end) /\ onStep(value, start, step)

rangeStepEnds(value, ends, step) ==
    \E start \in {parseInt(ends[1])}, end \in {parseInt(ends[2])} :
        rangeStepMatches(value, start, end, step)

\* The same test without value >= start.
singleStepMatchesBelow(value, start, step) == onStep(value, start, step)

singleStepMatches(value, start, step) == atLeast(value, start) /\ onStep(value, start, step)

stepMatches(value, rangePart, step) ==
    IF rangePart = <<"*">> THEN remainderIsZero(value, step)
    ELSE IF includes(rangePart, "-")
    THEN \E ends \in {split(rangePart, "-")} : rangeStepEnds(value, ends, step)
    ELSE \E start \in {parseInt(rangePart)} : singleStepMatches(value, start, step)

stepPiecesMatch(value, pieces) ==
    \E step \in {parseInt(pieces[2])} : stepMatches(value, pieces[1], step)

rangeMatches(value, ends) ==
    \E start \in {parseInt(ends[1])}, end \in {parseInt(ends[2])} :
        atLeast(value, start) /\ atMost(value, end)

numberMatches(value, num) == ~isNaN(num) /\ num.n = value

\* One comma-separated part of matchesField's loop.
partMatches(value, part) ==
    IF includes(part, "/") THEN \E pieces \in {split(part, "/")} : stepPiecesMatch(value, pieces)
    ELSE IF includes(part, "-") THEN \E ends \in {split(part, "-")} : rangeMatches(value, ends)
    ELSE \E num \in {parseInt(part)} : numberMatches(value, num)

anyPartMatches(value, parts) == \E i \in 1..Len(parts) : partMatches(value, parts[i])

matchesField(value, field, range) ==
    IF field = <<"*">> THEN TRUE
    ELSE \E parts \in {split(field, ",")} : anyPartMatches(value, parts)

----------------
(* The occurrence search of getNextExecutionTime.                          *)

maxIterations == 2000000

Null == [kind |-> "null", t |-> 0]

Pending == [kind |-> "pending", t |-> 0]

Threw == [kind |-> "threw", t |-> 0]

Instant(t) == [kind |-> "date", t |-> t]

\* new Date(fromDate) with seconds and milliseconds cleared.
TruncateToMinute(from) == setSeconds(from, 0)

\* current.setMinutes(current.getMinutes() + 1)
SkipMinute(t) == setMinutes(t, getMinutes(t) + 1)

\* The cursor without the move to the next minute.
InitialCursorNoAdvance(from) == TruncateToMinute(from)

\* The cursor the loop starts from: the reference truncated to the minute,
\* then moved to the next minute.
InitialCursor(from) == SkipMinute(TruncateToMinute(from))

\* start === 0 || start === 7 || end === 0 || end === 7 || (start <= 0 && end >= 0)
sundayEnds(start, end) ==
    \/ (~isNaN(start) /\ start.n \in {0, 7})
    \/ (~isNaN(end) /\ end.n \in {0, 7})
    \/ (~isNaN(start) /\ ~isNaN(end) /\ start.n <= 0 /\ end.n >= 0)

sundayRange(ends) ==
    \E start \in {parseInt(ends[1])}, end \in {parseInt(ends[2])} : sundayEnds(start, end)

\* The loop over the parts of a field that contains "0" and no "/".
sundayParts(parts) ==
    \E i \in 1..Len(parts) :
        \/ parts[i] = <<"0">>
        \/ parts[i] = <<"7">>
        \/ (includes(parts[i], "-") /\ \E ends \in {split(parts[i], "-")} : sundayRange(ends))

\* A weekday test that tries 7 for every day, not for Sunday only.
checkWeekdayUnguarded(wd, field) ==
    \/ matchesField(wd, field, FIELD_RANGES.weekday)
    \/ matchesField(7, field, FIELD_RANGES.weekday)

\* checkWeekdayMatch: Sunday is wd = 0 and is also tried as 7.
checkWeekdayMatch(wd, field) ==
    \/ matchesField(wd, field, FIELD_RANGES.weekday)
    \/ wd = 0 /\ matchesField(7, field, FIELD_RANGES.weekday)
    \/ /\ wd = 0
       /\ includes(field, "0")
       /\ ~includes(field, "/")
       /\ \E parts \in {split(field, ",")} : sundayParts(parts)

\* The day rule with AND where both fields are given.
dayMatchesBoth(p, dayOfMonth, weekday) ==
    IF p.day = <<"*">> /\ p.weekday = <<"*">> THEN TRUE
    ELSE IF p.day = <<"*">> THEN checkWeekdayMatch(weekday, p.weekday)
    ELSE IF p.weekday = <<"*">> THEN matchesField(dayOfMonth, p.day, FIELD_RANGES.day)
    ELSE /\ matchesField(dayOfMonth, p.day, FIELD_RANGES.day)
         /\ checkWeekdayMatch(weekday, p.weekday)

\* dayMatches: the day-of-month / weekday rule for the cursor's day.
dayMatches(p, dayOfMonth, weekday) ==
    IF p.day = <<"*">> /\ p.weekday = <<"*">> THEN TRUE
    ELSE IF p.day = <<"*">> THEN checkWeekdayMatch(weekday, p.weekday)
    ELSE IF p.weekday = <<"*">> THEN matchesField(dayOfMonth, p.day, FIELD_RANGES.day)
    ELSE \/ matchesField(dayOfMonth, p.day, FIELD_RANGES.day)
         \/ checkWeekdayMatch(weekday, p.weekday)

\* A search that does not test the minute.
minuteNotTested(p, t) == TRUE

\* const month = current.getMonth() + 1; matchesField(month, parsed.month, ...)
monthMatches(p, t) ==
    \E month \in {getMonth(t) + 1} : matchesField(month, p.month, FIELD_RANGES.month)

hourMatches(p, t) ==
    \E hours \in {getHours(t)} : matchesField(hours, p.hour, FIELD_RANGES.hour)

minuteMatches(p, t) ==
    \E minutes \in {getMinutes(t)} : matchesField(minutes, p.minute, FIELD_RANGES.minute)

\* A month skip that keeps the day of the month.
SkipMonthKeepDate(t) == setMonth(setHours(setMinutes(t, 0), 0), getMonth(t) + 1)

\* Month mismatch: 00:00 of day 1, then the month after the cursor's.
SkipMonth(t) == setMonth(setDate(setHours(setMinutes(t, 0), 0), 1), getMonth(t) + 1)

\* A day skip that goes back to 00:00 and does not move to the next day.
SkipDayStuck(t) == setHours(setMinutes(t, 0), 0)

\* A day skip that takes February to have 28 days in every year.
SkipDayFebruary28(t) ==
    IF getMonth(t) = 1 /\ getDate(t) >= 28
    THEN setMonth(setDate(setHours(setMinutes(t, 0), 0), 1), 2)
    ELSE setDate(setHours(setMinutes(t, 0), 0), getDate(t) + 1)

\* Day mismatch: 00:00, then the day after the cursor's.
SkipDay(t) == setDate(setHours(setMinutes(t, 0), 0), getDate(t) + 1)

\* Hour mismatch: minute 0, then the hour after the cursor's.
nextHour(c) == setHours(c, getHours(c) + 1)

\* An hour skip that keeps the minute.
SkipHourKeepMinute(t) == nextHour(t)

SkipHour(t) == nextHour(setMinutes(t, 0))

\* A test that asks for more than a minute after the reference.
InFutureLate(t, from) == t > from + 60

\* current > fromDate.
InFuture(t, from) == t > from

\* A horizon that ends one year early.
BeyondHorizonEarly(t, year0) == getFullYear(t) >= year0 + 2

\* current.getFullYear() > startYear + 2
BeyondHorizon(t, year0) == getFullYear(t) > year0 + 2

\* One pass of the while loop's body, after iterations++: the branch taken,
\* the cursor it leaves and, when it returns, the value returned.
LoopBody(p, t, from, year0) ==
    IF BeyondHorizon(t, year0)
    THEN [branch |-> "horizon", returns |-> TRUE, value |-> Null, current |-> t]
    ELSE IF ~monthMatches(p, t)
    THEN [branch |-> "month", returns |-> FALSE, value |-> Pending, current |-> SkipMonth(t)]
    ELSE IF ~(\E dayOfMonth \in {getDate(t)}, weekday \in {getDay(t)} :
                 dayMatches(p, dayOfMonth, weekday))
    THEN [branch |-> "day", returns |-> FALSE, value |-> Pending, current |-> SkipDay(t)]
    ELSE IF ~hourMatches(p, t)
    THEN [branch |-> "hour", returns |-> FALSE, value |-> Pending, current |-> SkipHour(t)]
    ELSE IF ~minuteMatches(p, t)
    THEN [branch |-> "minute", returns |-> FALSE, value |-> Pending, current |-> SkipMinute(t)]
    ELSE IF InFuture(t, from)
    THEN [branch |-> "found", returns |-> TRUE, value |-> Instant(t), current |-> t]
    ELSE [branch |-> "defensive", returns |-> FALSE, value |-> Pending, current |-> SkipMinute(t)]

\* The while loop as a function of the cursor: the value the call returns
\* when the loop is at cursor t after n iterations.
RECURSIVE searchFrom(_, _, _, _, _)
searchFrom(p, t, from, year0, n) ==
    IF ~(n < maxIterations) THEN Null
    ELSE LET pass == LoopBody(p, t, from, year0)
         IN  IF pass.returns THEN pass.value
             ELSE searchFrom(p, pass.current, from, year0, n + 1)

searchValid(p, cursor, from) == searchFrom(p, cursor, from, getFullYear(cursor), 0)

searchValidated(validation, fields, from) ==
    IF validation.threw THEN Threw
    ELSE IF ~validation.valid THEN Null
    ELSE searchValid(fields, InitialCursor(from), from)

\* getNextExecutionTime(expression, fromDate) as a function of its arguments.
getNextExecutionTime(text, from) ==
    searchValidated(validateCronExpression(text), parseCronExpression(text).fields, from)

----------------------------------------------------------------------------
(* Inputs: the expressions and the reference instants the search is run on.*)

Cron(minute, hour, day, month, weekday) ==
    minute \o <<" ">> \o hour \o <<" ">> \o day \o <<" ">> \o month \o <<" ">> \o weekday

ExpressionList ==
    << Cron(<<"0">>, <<"1", "4">>, <<"*">>, <<"*">>, <<"*">>),
       Cron(<<"0">>, <<"0">>, <<"1">>, <<"*">>, <<"0">>),
       Cron(<<"0">>, <<"0">>, <<"2", "9">>, <<"2">>, <<"*">>),
       Cron(<<"0">>, <<"0">>, <<"3", "0">>, <<"2">>, <<"*">>),
       Cron(<<"*">>, <<"*">>, <<"*">>, <<"*">>, <<"*">>),
       Cron(<<"*", "/", "1", "5">>, <<"*">>, <<"*">>, <<"*">>, <<"*">>),
       Cron(<<"0">>, <<"0">>, <<"*">>, <<"*">>, <<"0">>),
       Cron(<<"0">>, <<"0">>, <<"*">>, <<"*">>, <<"7">>),
       Cron(<<"0">>, <<"0">>, <<"*">>, <<"*">>, <<"5", "-", "7">>),
       Cron(<<"0">>, <<"0">>, <<"*">>, <<"*">>, <<"0", "/", "2">>),
       Cron(<<"0">>, <<"0">>, <<"*">>, <<"*">>, <<"7", "/", "2">>),
       Cron(<<"0">>, <<"0">>, <<"*">>, <<"*">>, <<"0", "-", "3">>),
       Cron(<<"0">>, <<"0">>, <<"*">>, <<"*">>, <<"7", "-", "3">>),
       Cron(<<"0">>, <<"9", "-", "1", "7">>, <<"*">>, <<"*">>, <<"1", "-", "5">>),
       Cron(<<"0">>, <<"0">>, <<"3", "1">>, <<"*">>, <<"*">>),
       Cron(<<"5", "9">>, <<"2", "3">>, <<"3", "1">>, <<"1", "2">>, <<"*">>),
       Cron(<<"0">>, <<"0">>, <<"*">>, <<"*", "/", "1", "3">>, <<"*">>),
       Cron(<<"0">>, <<"0">>, <<"*", "/", "3", "2">>, <<"*">>, <<"*">>),
       Cron(<<"0">>, <<"0">>, <<"1", "3">>, <<"*">>, <<"5">>),
       Cron(<<"5", ",", "3", "5">>, <<"8">>, <<"*">>, <<"*">>, <<"1", ",", "0">>),
       Cron(<<"0">>, <<"1", "2">>, <<"*">>, <<"2">>, <<"1">>),
       Cron(<<"6", "0">>, <<"*">>, <<"*">>, <<"*">>, <<"*">>),
       Cron(<<"*", "/", "0">>, <<"*">>, <<"*">>, <<"*">>, <<"*">>),
       <<"*", " ", "*", " ", "*", " ", "*">>,
       <<"*", " ", "*", " ", "*", " ", "*", " ", "*", " ", "*">>,
       <<"i", "n", "v", "a", "l", "i", "d">>,
       <<"@", "d", "a", "i", "l", "y">>,
       <<" ", "@", "W", "e", "e", "k", "l", "y", " ">>,
       <<"c", "o", "n", "s", "t", "r", "u", "c", "t", "o", "r">>,
       <<" ", "_", "_", "P", "R", "O", "T", "O", "_", "_">>,
       Cron(<<"0">>, <<"0">>, <<"1">>, <<"1">>, <<"*">>),
       Cron(<<"0">>, <<"0">>, <<"*">>, <<"*">>, <<"1", "-", "7", "/", "2">>) >>

ReferenceList ==
    << DateOf(2024, 1, 15, 10, 0, 0),
       DateOf(2024, 2, 28, 10, 0, 0),
       DateOf(2025, 2, 28, 10, 0, 0),
       DateOf(2024, 12, 31, 23, 59, 30),
       DateOf(2024, 1, 21, 0, 0, 0),
       DateOf(2024, 1, 31, 10, 0, 0),
       DateOf(2026, 2, 28, 23, 59, 0),
       DateOf(2024, 12, 31, 23, 0, 0),
       DateOf(2023, 12, 31, 23, 59, 59) >>

\* How many of the expressions and of the reference instants are run.
NExpressions == 30

NReferences == 8

Expressions == {ExpressionList[i] : i \in 1..NExpressions}

ReferenceInstants == {ReferenceList[i] : i \in 1..NReferences}

----------------------------------------------------------------------------
(* The texts given to parseCronExpression, validateCronExpression and      *)
(* getHumanReadableDescription.  Each is kept with the way it was built    *)
(* (its shape), so that a property can speak of "the term a-b in field F". *)

DigitText == <<"0", "1", "2", "3", "4", "5", "6", "7", "8", "9">>

RECURSIVE NaturalText(_)
NaturalText(n) ==
    IF n < 10 THEN <<DigitText[n + 1]>>
    ELSE NaturalText(n \div 10) \o <<DigitText[(n % 10) + 1]>>

\* The decimal text of an integer.
IntegerText(n) == IF n < 0 THEN <<"-">> \o NaturalText(0 - n) ELSE NaturalText(n)

Star == <<"*">>

FieldsText(f) == Cron(f[1], f[2], f[3], f[4], f[5])

\* The expression with the term in field i and a wildcard in the others.
OneField(i, term) == FieldsText([j \in 1..5 |-> IF j = i THEN term ELSE Star])

Lowest(i) == FIELD_RANGES[FieldOrder[i]][1]

Highest(i) == FIELD_RANGES[FieldOrder[i]][2]

InDomain(i, n) == Lowest(i) <= n /\ n <= Highest(i)

MaxTerm == 61

MaxNegative == 2

MaxStep == 3

\* The plain integers tried in every field.
TermIntegers == (0 - MaxNegative)..MaxTerm

\* The endpoints tried in field i: around both ends of the domain, and one
\* negative number.
Ends(i) ==
    {Lowest(i) - 1, Lowest(i), Lowest(i) + 1,
     Highest(i) - 1, Highest(i), Highest(i) + 1, 0 - MaxNegative}

PositiveStepTexts == {IntegerText(n) : n \in 1..MaxStep}

BadStepTexts ==
    {IntegerText(0), IntegerText(0 - 1), IntegerText(0 - 5), <<"a", "b", "c">>, <<>>}

StepTexts == PositiveStepTexts \cup BadStepTexts

Shape(kind, field, base, a, b, slash, step, text) ==
    [kind |-> kind, field |-> field, base |-> base, a |-> a, b |-> b,
     slash |-> slash, step |-> step, text |-> text]

NoShape == Shape("none", 0, "", 0, 0, FALSE, <<>>, <<>>)

\* The text of a term: its base, then the slash and the step if it has one.
BaseText(base, a, b) ==
    IF base = "*" THEN Star
    ELSE IF base = "value" THEN IntegerText(a)
    ELSE IntegerText(a) \o <<"-">> \o IntegerText(b)

TermText(base, a, b, slash, step) ==
    BaseText(base, a, b) \o (IF slash THEN <<"/">> \o step ELSE <<>>)

\* A comma list of two plain integers in one field, one of them at an end of
\* the domain or just above it.
ListShapes ==
    UNION {{Shape("list", i, "value", n, m, FALSE, <<>>,
                  OneField(i, IntegerText(n) \o <<",">> \o IntegerText(m))),
            Shape("list", i, "value", m, n, FALSE, <<>>,
                  OneField(i, IntegerText(m) \o <<",">> \o IntegerText(n)))} :
           i \in 1..5, n \in TermIntegers, m \in {1, 7, 8, 99}}

\* A term without a step, and the same term with each of the steps.
Stepless(i, base, a, b) ==
    Shape("term", i, base, a, b, FALSE, <<>>, OneField(i, TermText(base, a, b, FALSE, <<>>)))

Stepped(i, base, a, b) ==
    {Shape("term", i, base, a, b, TRUE, step,
           OneField(i, TermText(base, a, b, TRUE, step))) : step \in StepTexts}

\* One term in one field: a wildcard, a plain integer or a range, alone or
\* as the base of a step.
TermShapes ==
    {Stepless(i, "*", 0, 0) : i \in 1..5}
    \cup UNION {Stepped(i, "*", 0, 0) : i \in 1..5}
    \cup {Stepless(i, "value", a, 0) : i \in 1..5, a \in TermIntegers}
    \cup UNION {UNION {Stepped(i, "value", a, 0) : a \in Ends(i)} : i \in 1..5}
    \cup UNION {UNION {{Stepless(i, "range", a, b)} \cup Stepped(i, "range", a, b) :
                          a \in Ends(i), b \in Ends(i)} : i \in 1..5}

\* Five terms, each a wildcard or a term that no field accepts: a value
\* above every domain, an inverted range, a zero step.
FieldTerms == <<Star, <<"9", "9">>, <<"5", "-", "1">>, <<"*", "/", "0">>>>

\* The error each of these terms draws.
FieldTermErrors ==
    <<"", "Invalid value in ${fieldName}: ${part}", "Invalid range in ${fieldName}",
      "Invalid step value in ${fieldName}">>

\* The first field, in the order of the expression, whose term is not the
\* wildcard; 0 when all are.
FirstNonStar(c) ==
    IF \A i \in 1..5 : c[i] = 1 THEN 0
    ELSE CHOOSE i \in 1..5 : c[i] # 1 /\ \A j \in 1..(i - 1) : c[j] = 1

\* The shape records the first such field and which term it holds.
FieldsShape(c, first) ==
    Shape("fields", first, "", IF first = 0 THEN 1 ELSE c[first], 0, FALSE, <<>>,
          FieldsText([i \in 1..5 |-> FieldTerms[c[i]]]))

FieldsShapes == {FieldsShape(c, FirstNonStar(c)) : c \in [1..5 -> 1..4]}

\* A comma list in which the wildcard is one of two terms.
WildcardListShapes ==
    {Shape("wildcard list", i, "*", 5, 0, FALSE, <<>>, OneField(i, <<"*", ",", "5">>)) :
        i \in 1..5}
    \cup {Shape("wildcard list", i, "*", 5, 0, FALSE, <<>>, OneField(i, <<"5", ",", "*">>)) :
             i \in 1..5}

\* The j-th token of a text of tokens; none is a well-formed term of its
\* field.
Token(j) == IF j % 2 = 1 THEN <<"x">> \o IntegerText(j) ELSE IntegerText(60 + j) \o <<"/", ",", "-">>

MaxTokens == 7

Separators == {<<" ">>, <<" ", " ", " ">>, <<"\t", " ", "\n">>}

Margins == {<<>>, <<" ", " ">>, <<"\n", "\t">>}

RECURSIVE Joined(_, _)
Joined(n, separator) ==
    IF n = 0 THEN <<>>
    ELSE IF n = 1 THEN Token(1)
    ELSE Joined(n - 1, separator) \o separator \o Token(n)

\* From no token to MaxTokens tokens, between white space of several kinds.
TokenShapes ==
    {Shape("tokens", 0, "", n, 0, FALSE, <<>>, before \o Joined(n, separator) \o after) :
        n \in 0..MaxTokens, separator \in Separators, before \in Margins, after \in Margins}

AliasList ==
    <<<<"@", "y", "e", "a", "r", "l", "y">>,
      <<"@", "a", "n", "n", "u", "a", "l", "l", "y">>,
      <<"@", "m", "o", "n", "t", "h", "l", "y">>,
      <<"@", "w", "e", "e", "k", "l", "y">>,
      <<"@", "d", "a", "i", "l", "y">>,
      <<"@", "h", "o", "u", "r", "l", "y">>,
      <<"@", "m", "i", "n", "u", "t", "e", "l", "y">>>>

upperChar(c) ==
    IF \E i \in 1..26 : LowerCase[i] = c
    THEN UpperCase[CHOOSE i \in 1..26 : LowerCase[i] = c]
    ELSE c

toUpperCase(s) == [i \in 1..Len(s) |-> upperChar(s[i])]

\* "@daily" as "@Daily".
Capitalized(s) == [i \in 1..Len(s) |-> IF i = 2 THEN upperChar(s[i]) ELSE s[i]]

\* Each alias in lower case, in upper case and capitalized, between margins
\* of white space.
AliasShapes ==
    UNION {{Shape("alias", 0, "", a, 0, FALSE, <<>>, before \o spelling \o after) :
               spelling \in {AliasList[a], toUpperCase(AliasList[a]), Capitalized(AliasList[a])},
               before \in Margins, after \in Margins} : a \in 1..7}

\* Texts that are no alias, with the number of tokens white space splits
\* them into.
OtherTexts ==
    {[text |-> <<"d", "a", "i", "l", "y">>, tokens |-> 1],
     [text |-> <<"@", "d", "a", "i", "l", "y", "x">>, tokens |-> 1],
     [text |-> <<"@", " ", "d", "a", "i", "l", "y">>, tokens |-> 2],
     [text |-> <<"@", "d", "a", "i", "l", "y", " ", "@", "d", "a", "i", "l", "y">>, tokens |-> 2],
     [text |-> <<"@", "d", "a", "i", "l", "y", " ", "0", " ", "0", " ", "0", " ", "0">>, tokens |-> 5],
     [text |-> <<"@">>, tokens |-> 1],
     [text |-> <<>>, tokens |-> 1],
     [text |-> <<" ", "\t">>, tokens |-> 1],
     [text |-> <<"@", "r", "e", "b", "o", "o", "t">>, tokens |-> 1],
     [text |-> <<"0", " ", "0", " ", "*", " ", "*", " ", "@", "d", "a", "i", "l", "y">>, tokens |-> 5],
     [text |-> <<"t", "o", "s", "t", "r", "i", "n", "g">>, tokens |-> 1],
     [text |-> <<"c", "o", "n", "s", "t", "r", "u", "c", "t", "o", "r">>, tokens |-> 1],
     [text |-> <<"_", "_", "p", "r", "o", "t", "o", "_", "_">>, tokens |-> 1],
     [text |-> <<" ", "C", "o", "n", "s", "t", "r", "u", "c", "t", "o", "r", "\n">>, tokens |-> 1],
     [text |-> <<"c", "o", "n", "s", "t", "r", "u", "c", "t", "o", "r", " ", "0", " ", "0", " ", "0", " ", "0">>, tokens |-> 5]}

OtherShapes == {Shape("other", 0, "", o.tokens, 0, FALSE, <<>>, o.text) : o \in OtherTexts}

\* For each field a wildcard, a value, a range and a step that it accepts.
ValidTerms ==
    <<<<Star, <<"5">>, <<"0", "-", "3", "0">>, <<"*", "/", "1", "5">>>>,
      <<Star, <<"4">>, <<"9", "-", "1", "7">>, <<"*", "/", "2">>>>,
      <<Star, <<"1", "5">>, <<"1", "-", "1", "5">>, <<"*", "/", "1">>>>,
      <<Star, <<"6">>, <<"1", "-", "6">>, <<"*", "/", "3">>>>,
      <<Star, <<"7">>, <<"1", "-", "5">>, <<"0", "/", "2">>>>>>

\* Five terms, each one its field accepts.
ValidShapes ==
    {Shape("valid", 0, "", 0, 0, FALSE, <<>>, FieldsText([i \in 1..5 |-> ValidTerms[i][c[i]]])) :
        c \in [1..5 -> 1..4]}

\* Terms that are not a wildcard, an integer, a range of two integers or one
\* of these with a slash and an integer.
MalformedTerms ==
    {<<"5", "a", "b", "c">>,
     <<"1", ".", "5">>,
     <<"1", "-", "2", "-", "3">>,
     <<"1", "/", "2", "/", "3">>,
     <<"1", "-", "5", "x">>,
     <<"*", "/", "2", "x">>,
     <<"a", "b", "c">>,
     <<"5", "-">>,
     <<"/", "2">>,
     <<"1", ",", ",", "2">>}

MalformedShapes ==
    {Shape("malformed", i, "", 0, 0, FALSE, <<>>, OneField(i, term)) :
        i \in 1..5, term \in MalformedTerms}

\* A list of a range and a stepped value, both within every domain.
MixedListShapes ==
    {Shape("mixed list", i, "", 0, 0, FALSE, <<>>,
           OneField(i, <<"1", "-", "3", ",", "5", "/", "2">>)) : i \in 1..5}

\* A step on the wildcard that is one more than the greatest value of the
\* field.
LargeStepShapes ==
    {Shape("large step", i, "*", 0, 0, TRUE, IntegerText(Highest(i) + 1),
           OneField(i, <<"*", "/">> \o IntegerText(Highest(i) + 1))) : i \in 1..5}

EngineShapes ==
    TermShapes \cup ListShapes \cup FieldsShapes \cup WildcardListShapes
        \cup TokenShapes \cup AliasShapes \cup OtherShapes \cup ValidShapes
        \cup MalformedShapes \cup MixedListShapes \cup LargeStepShapes

----------------------------------------------------------------------------
(* The App component: its state as useState creates it.                    *)

\* useState('0 4 * * *'), useState({ minute: '0', hour: '4', ... }),
\* useState({ valid: true }), useState(''), useState(null)
InitialState ==
    [cronExpression |-> <<"0", " ", "4", " ", "*", " ", "*", " ", "*">>,
     fields |-> [minute |-> <<"0">>, hour |-> <<"4">>, day |-> <<"*">>, month |-> <<"*">>, weekday |-> <<"*">>],
     validation |-> withThrew(Valid, FALSE),
     description |-> <<>>,
     nextExecution |-> Null]

NoEvent == [kind |-> "none", value |-> <<>>, before |-> InitialState.fields, n |-> 0]

\* No App is rendered.
AppIdle ==
    /\ state = InitialState
    /\ effects = <<>>
    /\ mounted = FALSE
    /\ event = NoEvent

----------------------------------------------------------------------------
(* The state machine: one call of getNextExecutionTime(expression,         *)
(* fromDate), one step per loop iteration.                                 *)

Init ==
    /\ expression \in Expressions
    /\ fromDate \in ReferenceInstants
    /\ pc = "call"
    /\ parsed = NoFields
    /\ current = 0
    /\ iterations = 0
    /\ startYear = 0
    /\ branch = "none"
    /\ taken = {}
    /\ result = Pending
    /\ shape = NoShape
    /\ parseResult = Pending
    /\ validationResult = Pending
    /\ description = Pending
    /\ errorProps = Pending
    /\ AppIdle

\* if (!validation.valid) return null
\* A call that searches whatever the validation said.
returnsNever(validation) == FALSE

returnsEarly(validation) == ~validation.valid

\* The call up to the loop, once the expression is validated.
Enter(validation) ==
    IF validation.threw
    THEN /\ pc' = "done"
         /\ result' = Threw
         /\ UNCHANGED <<parsed, current, startYear>>
    ELSE IF returnsEarly(validation)
    THEN /\ pc' = "done"
         /\ result' = Null
         /\ UNCHANGED <<parsed, current, startYear>>
    ELSE /\ pc' = "loop"
         /\ parsed' = parseCronExpression(expression).fields
         /\ current' = InitialCursor(fromDate)
         /\ startYear' = getFullYear(current')
         /\ UNCHANGED result

\* From the call to the first test of the loop condition: validation, the
\* early return of null, the initial cursor, startYear.  An exception raised
\* by the validation leaves the call.
Call ==
    /\ pc = "call"
    /\ \E validation \in {validateCronExpression(expression)} : Enter(validation)
    /\ iterations' = 0
    /\ UNCHANGED <<expression, fromDate, branch, taken, engineVars, appVars>>

\* What one pass of the loop's body leaves.
Pass(pass) ==
    /\ iterations' = iterations + 1
    /\ branch' = pass.branch
    /\ taken' = taken \cup {pass.branch}
    /\ current' = pass.current
    /\ result' = pass.value
    /\ pc' = IF pass.returns THEN "done" ELSE "loop"

\* One test of the loop condition and, when it holds, one pass of the body;
\* when it fails, the return of null after the loop.
Iterate ==
    /\ pc = "loop"
    /\ IF ~(iterations < maxIterations)
       THEN /\ pc' = "done"
            /\ result' = Null
            /\ branch' = "cap"
            /\ taken' = taken \cup {"cap"}
            /\ UNCHANGED <<current, iterations>>
       ELSE \E pass \in {LoopBody(parsed, current, fromDate, startYear)} : Pass(pass)
    /\ UNCHANGED <<expression, fromDate, parsed, startYear, engineVars, appVars>>

Next == Call \/ Iterate

Spec == Init /\ [][Next]_vars

\* The loop is not interrupted: a call that has started runs on.
FairSpec == Spec /\ WF_vars(Next)

----------------------------------------------------------------------------
(* generateRandomCron.  Each Math.floor(Math.random() * n) is a draw from   *)
(* 0..n-1; first and second are the draws of the chosen pattern, in order. *)

\* A range whose end is the second draw, the start not added.
rangePatternUnordered(startHour, draw) ==
    <<"0", " ">> \o IntegerText(startHour) \o <<"-">> \o IntegerText(draw) \o <<" ", "*", " ", "*", " ", "*">>

\* `0 ${startHour}-${endHour} * * *` with endHour = startHour + the draw.
rangePattern(startHour, draw) ==
    <<"0", " ">> \o IntegerText(startHour) \o <<"-">> \o IntegerText(startHour + draw) \o <<" ", "*", " ", "*", " ", "*">>

\* The draws of each pattern: Math.random() is below 1, so a draw is below
\* its factor.
RandomDraws(pattern) ==
    IF pattern \in {0, 3} THEN (0..59) \X (0..23)
    ELSE IF pattern = 1 THEN (0..3) \X {0}
    ELSE IF pattern = 2 THEN (0..4) \X {0}
    ELSE IF pattern = 4 THEN (0..6) \X (0..23)
    ELSE IF pattern = 5 THEN (0..27) \X (0..23)
    ELSE UNION {{<<startHour, draw>> : draw \in 0..(24 - startHour - 1)} : startHour \in 0..19}

generateRandomCron(pattern, first, second) ==
    IF pattern \in {0, 3}
    THEN IntegerText(first) \o <<" ">> \o IntegerText(second) \o <<" ", "*", " ", "*", " ", "*">>
    ELSE IF pattern = 1
    THEN <<"*", "/">> \o IntegerText(<<5, 10, 15, 30>>[first + 1]) \o <<" ", "*", " ", "*", " ", "*", " ", "*">>
    ELSE IF pattern = 2
    THEN <<"0", " ", "*", "/">> \o IntegerText(<<1, 2, 3, 6, 12>>[first + 1]) \o <<" ", "*", " ", "*", " ", "*">>
    ELSE IF pattern = 4
    THEN <<"0", " ">> \o IntegerText(second) \o <<" ", "*", " ", "*", " ">> \o IntegerText(first)
    ELSE IF pattern = 5
    THEN <<"0", " ">> \o IntegerText(second) \o <<" ">> \o IntegerText(first + 1) \o <<" ", "*", " ", "*">>
    ELSE rangePattern(first, second)

\* Every outcome of the draws of generateRandomCron.
RandomShapes ==
    UNION {{Shape("random", pattern, "", d[1], d[2], FALSE, <<>>, <<>>) : d \in RandomDraws(pattern)} :
              pattern \in 0..6}

----------------------------------------------------------------------------
(* The entry points of the engine applied to one text, one after the       *)
(* other, and the editor's field errors drawn from the validation.         *)

EngineInit ==
    /\ \/ shape \in EngineShapes /\ pc = "parse"
       \/ shape \in RandomShapes /\ pc = "random"
    /\ expression = shape.text
    /\ fromDate = ReferenceList[1]
    /\ parsed = NoFields
    /\ current = 0
    /\ iterations = 0
    /\ startYear = 0
    /\ branch = "none"
    /\ taken = {}
    /\ result = Pending
    /\ parseResult = Pending
    /\ validationResult = Pending
    /\ description = Pending
    /\ errorProps = Pending
    /\ AppIdle

\* generateRandomCron with the draws of the shape; its text is then parsed,
\* validated and described as any other is.
Generate ==
    /\ pc = "random"
    /\ expression' = generateRandomCron(shape.field, shape.a, shape.b)
    /\ pc' = "parse"
    /\ UNCHANGED <<searchVars, engineVars, appVars>>

Parse ==
    /\ pc = "parse"
    /\ parseResult' = parseCronExpression(expression)
    /\ pc' = "validate"
    /\ UNCHANGED <<expression, searchVars, appVars, shape, validationResult, description, errorProps>>

Validate ==
    /\ pc = "validate"
    /\ validationResult' = validateCronExpression(expression)
    /\ pc' = "describe"
    /\ UNCHANGED <<expression, searchVars, appVars, shape, parseResult, description, errorProps>>

Describe ==
    /\ pc = "describe"
    /\ description' = getHumanReadableDescription(expression)
    /\ pc' = "render"
    /\ UNCHANGED <<expression, searchVars, appVars, shape, parseResult, validationResult, errorProps>>

\* The properties of the object validateCronExpression returns: { valid }
\* or { valid, error }.
ResultProperties(check) == IF check.valid THEN {"valid"} ELSE {"valid", "error"}

\* check[name]: undefined for a name the object does not hold.
propertyOf(check, name) ==
    IF name \in ResultProperties(check)
    THEN [kind |-> "value", value |-> check[name]]
    ELSE [kind |-> "undefined", value |-> ""]

NoError == [isNull |-> TRUE, error |-> "", fieldName |-> "", part |-> <<>>]

\* error={validation.field === fieldKey ? validation.error : null}
errorProp(check, fieldKey) ==
    IF \E field \in {propertyOf(check, "field")} :
          field.kind = "value" /\ field.value = fieldKey
    THEN [isNull |-> FALSE, error |-> check.error, fieldName |-> check.fieldName,
          part |-> check.part]
    ELSE NoError

\* The App with the validation of its expression in its state: the error
\* prop of each of the five CronField editors.  A validation that raised
\* leaves nothing rendered.
Render ==
    /\ pc = "render"
    /\ errorProps' = IF validationResult.threw THEN Pending
                     ELSE [fieldKey \in {"minute", "hour", "day", "month", "weekday"} |->
                              errorProp(validationResult, fieldKey)]
    /\ pc' = "end"
    /\ UNCHANGED <<expression, searchVars, appVars, shape, parseResult, validationResult, description>>

EngineNext == Generate \/ Parse \/ Validate \/ Describe \/ Render

EngineSpec == EngineInit /\ [][EngineNext]_vars

----------------------------------------------------------------------------
(* The App component.  An event handler runs to its end, React commits the *)
(* state it set and the effects whose dependencies changed are run in the  *)
(* order they are declared; the state an effect sets is committed in turn. *)
(* An event is handled once the effects of the last commit have run.  n of *)
(* event counts the events handled.                                        *)

\* The events one run of the App handles.
MaxEvents == 2

\* What is typed into the expression input.
AppTexts ==
    {<<"3", "0", " ", "1", "5", " ", "*", " ", "*", " ", "*">>, <<"@", "d", "a", "i", "l", "y">>, <<" ", "0", " ", " ", "1", "4", " ", "*", " ", "*", " ", "*", " ">>, <<"*", " ", "*", " ", "*">>, <<"x", " ", "*", " ", "*", " ", "*", " ", "*">>, <<"c", "o", "n", "s", "t", "r", "u", "c", "t", "o", "r">>}

\* What is typed into a field editor.
FieldValues == {<<"7">>, <<>>}

\* The draws handleRandom is run with: (pattern, first, second).
RandomShown == {<<0, 30, 15>>, <<1, 0, 0>>}

\* new Date(), the default fromDate of getNextExecutionTime(cronExpression).
AppClock == {ReferenceList[1]}

Effect(name, captured) == [name |-> name, captured |-> captured]

AppInit ==
    /\ expression = <<>>
    /\ pc = "app"
    /\ fromDate = ReferenceList[1]
    /\ parsed = NoFields
    /\ current = 0
    /\ iterations = 0
    /\ startYear = 0
    /\ branch = "none"
    /\ taken = {}
    /\ result = Pending
    /\ shape = NoShape
    /\ parseResult = Pending
    /\ validationResult = Pending
    /\ description = Pending
    /\ errorProps = Pending
    /\ state = InitialState
    /\ effects = <<Effect("fields", <<>>), Effect("cronExpression", InitialState.cronExpression)>>
    /\ mounted = TRUE
    /\ event = [kind |-> "mount", value |-> <<>>, before |-> InitialState.fields, n |-> 0]

\* handleExpressionChange(value): setCronExpression(value), then setFields
\* when the parse is valid.  A parse that raises ends the handler after
\* setCronExpression.  The effect of fields is run when setFields was
\* called, the one of cronExpression when the text is another.
handleExpressionChange(kind, value) ==
    LET p == parseCronExpression(value)
        set == ~p.threw /\ p.valid
    IN  /\ mounted
        /\ effects = <<>>
        /\ event.n < MaxEvents
        /\ state' = [state EXCEPT !.cronExpression = value,
                                  !.fields = IF set THEN p.fields ELSE @]
        /\ effects' = (IF set THEN <<Effect("fields", <<>>)>> ELSE <<>>)
                      \o (IF value # state.cronExpression
                          THEN <<Effect("cronExpression", value)>> ELSE <<>>)
        /\ event' = [kind |-> kind, value |-> value, before |-> state.fields, n |-> event.n + 1]
        /\ UNCHANGED <<expression, pc, searchVars, engineVars, mounted>>

ExpressionChange == \E value \in AppTexts : handleExpressionChange("expression", value)

\* handleRandom: handleExpressionChange(generateRandomCron())
handleRandom ==
    \E draw \in RandomShown :
        handleExpressionChange("random", generateRandomCron(draw[1], draw[2], draw[3]))

\* handleFieldChange(fieldKey, value): setFields(prev => ({ ...prev, [fieldKey]: value }))
handleFieldChange ==
    \E fieldKey \in {"minute", "hour", "day", "month", "weekday"}, value \in FieldValues :
        /\ mounted
        /\ effects = <<>>
        /\ event.n < MaxEvents
        /\ state' = [state EXCEPT !.fields[fieldKey] = value]
        /\ effects' = <<Effect("fields", <<>>)>>
        /\ event' = [kind |-> "field", value |-> value, before |-> state.fields, n |-> event.n + 1]
        /\ UNCHANGED <<expression, pc, searchVars, engineVars, mounted>>

\* useEffect(() => setCronExpression(`${fields.minute} ... ${fields.weekday}`), [fields])
FieldsEffect ==
    /\ effects # <<>>
    /\ Head(effects).name = "fields"
    /\ \E joined \in {Cron(state.fields.minute, state.fields.hour, state.fields.day,
                           state.fields.month, state.fields.weekday)} :
          /\ state' = [state EXCEPT !.cronExpression = joined]
          /\ effects' = Tail(effects) \o (IF joined # state.cronExpression
                                          THEN <<Effect("cronExpression", joined)>> ELSE <<>>)
    /\ UNCHANGED <<expression, pc, searchVars, engineVars, mounted, event>>

\* What the effect of cronExpression sets: [raised, validation, description,
\* nextExecution].  An exception leaves the effect.
validated(text, now) ==
    LET check == validateCronExpression(text)
    IN  IF check.threw
        THEN [raised |-> TRUE, validation |-> check, description |-> <<>>, nextExecution |-> Null]
        ELSE IF ~check.valid
        THEN [raised |-> FALSE, validation |-> check, description |-> InvalidCronExpression,
              nextExecution |-> Null]
        ELSE The({[raised |-> words.threw \/ next = Threw, validation |-> check,
                   description |-> words.text, nextExecution |-> next] :
                      words \in {getHumanReadableDescription(text)},
                      next \in {getNextExecutionTime(text, now)}})

\* useEffect(() => { const result = validateCronExpression(cronExpression); ... },
\* [cronExpression]).  An exception in an effect, with no error boundary
\* around the App, makes React remove the App from the page.
ValidationEffect ==
    /\ effects # <<>>
    /\ Head(effects).name = "cronExpression"
    /\ \E now \in AppClock :
          \E set \in {validated(Head(effects).captured, now)} :
              IF set.raised
              THEN /\ mounted' = FALSE
                   /\ effects' = <<>>
                   /\ UNCHANGED state
              ELSE /\ state' = [state EXCEPT !.validation = set.validation,
                                             !.description = set.description,
                                             !.nextExecution = set.nextExecution]
                   /\ effects' = Tail(effects)
                   /\ UNCHANGED mounted
    /\ UNCHANGED <<expression, pc, searchVars, engineVars, event>>

AppNext == ExpressionChange \/ handleRandom \/ handleFieldChange \/ FieldsEffect \/ ValidationEffect

AppSpec == AppInit /\ [][AppNext]_vars

----------------------------------------------------------------------------
(* What the properties below speak of.                                     *)

\* The call went into the search loop, so the expression was valid.
Searched == branch # "none"

\* An occurrence of the fields p: an instant on a whole minute whose month,
\* hour and minute match their fields and whose day satisfies the
\* day-of-month / weekday rule.
Occurrence(p, t) ==
    /\ getSeconds(t) = 0
    /\ matchesField(getMonth(t) + 1, p.month, FIELD_RANGES.month)
    /\ dayMatches(p, getDate(t), getDay(t))
    /\ matchesField(getHours(t), p.hour, FIELD_RANGES.hour)
    /\ matchesField(getMinutes(t), p.minute, FIELD_RANGES.minute)

\* Some occurrence of p lies strictly between the instants a and b.
OccursBetween(p, a, b) ==
    \E d \in Day(a)..Day(b) :
        /\ matchesField(getMonth(d * 86400) + 1, p.month, FIELD_RANGES.month)
        /\ dayMatches(p, getDate(d * 86400), getDay(d * 86400))
        /\ \E h \in 0..23 :
              /\ a < d * 86400 + h * 3600 + 3600
              /\ d * 86400 + h * 3600 < b
              /\ matchesField(h, p.hour, FIELD_RANGES.hour)
              /\ \E mi \in 0..59 :
                    /\ a < d * 86400 + h * 3600 + mi * 60
                    /\ d * 86400 + h * 3600 + mi * 60 < b
                    /\ matchesField(mi, p.minute, FIELD_RANGES.minute)

\* The first instant after the horizon: 1 January of the year startYear + 3.
HorizonEnd(year0) == DateOf(year0 + 3, 1, 1, 0, 0, 0)

\* Leap years by the Gregorian rule.
IsLeapYear(y) == y % 4 = 0 /\ (y % 100 # 0 \/ y % 400 = 0)

DaysInMonth(y, m) ==
    IF m = 2 THEN (IF IsLeapYear(y) THEN 29 ELSE 28)
    ELSE IF m \in {4, 6, 9, 11} THEN 30 ELSE 31

----------------------------------------------------------------------------
(* C1.  Whenever getNextExecutionTime returns an instant, that instant is  *)
(* strictly later than the reference instant, also when the reference      *)
(* itself is an occurrence; the cursor is strictly after the reference     *)
(* from the first pass of the loop on.                                     *)
C1_StrictlyAfterReference ==
    /\ pc = "loop" => current > fromDate
    /\ result.kind = "date" => result.t > fromDate

\* An instant was returned for a reference that is itself an occurrence.
C1_Witness == result.kind = "date" /\ Occurrence(parsed, fromDate)

C3_ResultIsOccurrence ==
    result.kind = "date" =>
        /\ Occurrence(parsed, result.t)
        /\ getSeconds(result.t) = 0
        /\ getDate(result.t) \in 1..DaysInMonth(getFullYear(result.t), getMonth(result.t) + 1)

\* An instant was returned for an expression that constrains the minute, the
\* hour, the day of the month and the month.
C3_Witness ==
    /\ result.kind = "date"
    /\ <<"*">> \notin {parsed.minute, parsed.hour, parsed.day, parsed.month}

\* The day rule in its four cases, on the values each field matches.
C4_DayRule(p, dayOfMonth, weekday) ==
    LET dayWild == p.day = <<"*">>
        weekdayWild == p.weekday = <<"*">>
        inDay == matchesField(dayOfMonth, p.day, FIELD_RANGES.day)
        inWeekday == checkWeekdayMatch(weekday, p.weekday)
    IN  /\ (dayWild /\ weekdayWild) => TRUE
        /\ (dayWild /\ ~weekdayWild) => inWeekday
        /\ (~dayWild /\ weekdayWild) => inDay
        /\ (~dayWild /\ ~weekdayWild) => (inDay \/ inWeekday)

Cron_0_0_1_x_0 == <<"0", " ", "0", " ", "1", " ", "*", " ", "0">>

(* C4.  The day test of the search is the day-of-month / weekday rule:     *)
(* both fields `*`, every day; one field `*`, the other decides; neither   *)
(* `*`, either field suffices.  The search passes a day exactly when the   *)
(* rule holds of it, and "0 0 1 * 0" from 2024-01-15T10:00 gives Sunday    *)
(* 2024-01-21T00:00.                                                       *)
C4_DayOfMonthOrWeekday ==
    /\ pc = "loop" =>
          (dayMatches(parsed, getDate(current), getDay(current))
              <=> C4_DayRule(parsed, getDate(current), getDay(current)))
    /\ result.kind = "date" => C4_DayRule(parsed, getDate(result.t), getDay(result.t))
    /\ (/\ pc = "done"
        /\ expression = Cron_0_0_1_x_0
        /\ fromDate = DateOf(2024, 1, 15, 10, 0, 0))
          => result = Instant(DateOf(2024, 1, 21, 0, 0, 0))

\* The search of "0 0 1 * 0" from 2024-01-15T10:00 returned a Sunday that is
\* not the first of a month.
C4_Witness ==
    /\ expression = Cron_0_0_1_x_0
    /\ fromDate = DateOf(2024, 1, 15, 10, 0, 0)
    /\ result.kind = "date"
    /\ getDay(result.t) = 0
    /\ getDate(result.t) # 1

----------------------------------------------------------------------------
\* Position i of a field is in a value (not in the step after a "/").
InValuePosition(f, i) ==
    \A j \in 1..(i - 1) : f[j] = "/" => \E k \in (j + 1)..(i - 1) : f[k] = ","

\* Position i of a field holds a term that is the single value 0.
IsPlainZero(f, i) ==
    /\ f[i] = "0"
    /\ (i = 1 \/ f[i - 1] = ",")
    /\ (i = Len(f) \/ f[i + 1] = ",")

UsesZero(f) == \E i \in 1..Len(f) : f[i] = "0" /\ InValuePosition(f, i)

HasPlainZero(f) == \E i \in 1..Len(f) : IsPlainZero(f, i)

\* The field with 7 in place of every value 0.
SevenForZero(f) ==
    [i \in 1..Len(f) |-> IF f[i] = "0" /\ InValuePosition(f, i) THEN "7" ELSE f[i]]

\* The field with 7 in place of every term that is the single value 0.
SevenForPlainZero(f) ==
    [i \in 1..Len(f) |-> IF IsPlainZero(f, i) THEN "7" ELSE f[i]]

WithWeekday(p, weekday) == Cron(p.minute, p.hour, p.day, p.month, weekday)

\* The weekdays 0..6 (0 is Sunday) that one term of a weekday field denotes:
\* the values from its start to its end, by its step, 7 read as Sunday.
TermValues(lo, hi, step) == {k % 7 : k \in {j \in lo..hi : (j - lo) % step = 0}}

TermEnds(base, step) ==
    IF base = <<"*">> THEN TermValues(0, 7, step)
    ELSE IF includes(base, "-")
    THEN TermValues(parseInt(split(base, "-")[1]).n, parseInt(split(base, "-")[2]).n, step)
    ELSE TermValues(parseInt(base).n, parseInt(base).n, step)

TermSteps(pieces) ==
    IF Len(pieces) = 1 THEN TermEnds(pieces[1], 1)
    ELSE IF pieces[1] = <<"*">> \/ includes(pieces[1], "-")
    THEN TermEnds(pieces[1], parseInt(pieces[2]).n)
    ELSE TermValues(parseInt(pieces[1]).n, 7, parseInt(pieces[2]).n)

TermsDenote(parts) == UNION {TermSteps(split(parts[i], "/")) : i \in 1..Len(parts)}

Denoted(field) == TermsDenote(split(field, ","))

MatchedWeekdays(field) == {wd \in 0..6 : checkWeekdayMatch(wd, field)}

(* C5 as stated.  Sunday alias: for every reference, the search gives the  *)
(* same result for an expression whose weekday field uses 0 as for the     *)
(* same expression with 7 in place of each 0.                              *)
C5_SevenForEveryZero ==
    (pc = "done" /\ Searched /\ UsesZero(parsed.weekday)) =>
        getNextExecutionTime(WithWeekday(parsed, SevenForZero(parsed.weekday)), fromDate) = result

(* C5, amended.  Sunday alias: the weekday values 0 and 7 both pass        *)
(* validation; for every reference the search gives the same result for an *)
(* expression whose weekday field has the single value 0 as a term (alone  *)
(* or in a comma list) as for the same expression with 7 in place of that  *)
(* term; the range 5-7 matches Sunday and the days 5 and 6; and a weekday  *)
(* field never matches a day that none of its terms denotes.               *)
C5_SundayAlias ==
    /\ (pc = "done" /\ Searched /\ HasPlainZero(parsed.weekday)) =>
          /\ validateCronExpression(WithWeekday(parsed, SevenForPlainZero(parsed.weekday))).valid
          /\ getNextExecutionTime(WithWeekday(parsed, SevenForPlainZero(parsed.weekday)), fromDate) = result
    /\ (pc = "done" /\ Searched /\ parsed.weekday = <<"5", "-", "7">>) =>
          MatchedWeekdays(parsed.weekday) = {0, 5, 6}
    /\ (pc = "done" /\ Searched) => MatchedWeekdays(parsed.weekday) \subseteq Denoted(parsed.weekday)

\* A search of an expression whose weekday field is the single value 0
\* returned a Sunday.
C5_Witness ==
    /\ result.kind = "date"
    /\ parsed.weekday = <<"0">>
    /\ getDay(result.t) = 0

----------------------------------------------------------------------------
\* The expression matches no date of any year: no month and day of a leap
\* year, on any weekday, pass the month test and the day rule.
NeverOccurs(p) ==
    ~\E m \in 1..12 : \E d \in 1..DaysInMonth(2024, m) : \E wd \in 0..6 :
        /\ matchesField(m, p.month, FIELD_RANGES.month)
        /\ dayMatches(p, d, wd)

(* C6.  The search terminates: every pass of the loop that does not return *)
(* moves the cursor strictly forward, every call returns after finitely    *)
(* many passes, and for an expression that matches no date, such as        *)
(* "0 0 30 2 *", the call returns null.                                    *)
C6_SearchTerminates ==
    /\ [][(pc = "loop" /\ pc' = "loop") => current' > current]_vars
    /\ <>(pc = "done")
    /\ []((pc = "done" /\ Searched /\ NeverOccurs(parsed)) => result = Null)

\* The search of day 30 of February gave up at the horizon and returned null.
C6_Witness ==
    /\ pc = "done"
    /\ result = Null
    /\ branch = "horizon"
    /\ parsed.day = <<"3", "0">>
    /\ parsed.month = <<"2">>

(* C7.  Search horizon: with startYear the year of the initial cursor, a   *)
(* search returns null if and only if no occurrence lies strictly after    *)
(* the reference and up to the end of the year startYear + 2, and it never *)
(* returns an instant of a later year.                                     *)
C7_Horizon ==
    (pc = "done" /\ Searched) =>
        /\ result = Null <=> ~OccursBetween(parsed, fromDate, HorizonEnd(startYear))
        /\ result.kind = "date" => getFullYear(result.t) <= startYear + 2

\* An instant in the last year of the horizon was returned.
C7_Witness == result.kind = "date" /\ getFullYear(result.t) = startYear + 2

(* C8.  For every expression that validateCronExpression finds invalid     *)
(* (wrong field count or a field error), getNextExecutionTime returns null *)
(* without entering the search loop.                                       *)
C8_InvalidReturnsNull ==
    (pc # "call" /\ ~validateCronExpression(expression).valid
                 /\ ~validateCronExpression(expression).threw) =>
        /\ pc = "done"
        /\ result = Null
        /\ iterations = 0
        /\ branch = "none"
        /\ taken = {}

\* A call with an expression that has a field error returned null.
C8_Witness ==
    /\ pc = "done"
    /\ result = Null
    /\ validateCronExpression(expression).fieldName # ""
    /\ ~validateCronExpression(expression).valid

Cron_0_0_29_2_x == <<"0", " ", "0", " ", "2", "9", " ", "2", " ", "*">>

(* C9.  Leap years: "0 0 29 2 *" from 2024-02-28T10:00:00 returns          *)
(* 2024-02-29T00:00:00; every instant it returns is 29 February of a leap  *)
(* year; and from 28 February of a year that is not a leap year it returns *)
(* no date of that year.                                                   *)
C9_LeapYear ==
    (pc = "done" /\ expression = Cron_0_0_29_2_x) =>
        /\ fromDate = DateOf(2024, 2, 28, 10, 0, 0)
              => result = Instant(DateOf(2024, 2, 29, 0, 0, 0))
        /\ result.kind = "date" =>
              /\ getDate(result.t) = 29
              /\ getMonth(result.t) + 1 = 2
              /\ IsLeapYear(getFullYear(result.t))
        /\ (/\ getMonth(fromDate) + 1 = 2
            /\ getDate(fromDate) = 28
            /\ ~IsLeapYear(getFullYear(fromDate))
            /\ result.kind = "date")
              => getFullYear(result.t) # getFullYear(fromDate)

\* The search of 29 February from 28 February 2024 returned an instant.
C9_Witness ==
    /\ expression = Cron_0_0_29_2_x
    /\ fromDate = DateOf(2024, 2, 28, 10, 0, 0)
    /\ result.kind = "date"

(* C10.  No entry point raises, whatever the text: parseCronExpression and *)
(* validateCronExpression return a result object and getNextExecutionTime  *)
(* returns an instant or null.                                             *)
C10_NeverRaises ==
    /\ ~parseCronExpression(expression).threw
    /\ ~validateCronExpression(expression).threw
    /\ result # Threw

----------------------------------------------------------------------------
(* C11..C20: parsing, validation, the editor's field errors.               *)

Validated == pc \in {"describe", "render", "end"}

C11_Order == <<"minute", "hour", "day", "month", "weekday">>

\* What validateField says of each field of the parsed expression, alone.
C11_Checks ==
    [i \in 1..5 |->
        validateField(parseResult.fields[C11_Order[i]], C11_Order[i], FIELD_RANGES[C11_Order[i]])]

C11_SameError(check) ==
    /\ validationResult.error = check.error
    /\ validationResult.fieldName = check.fieldName
    /\ validationResult.part = check.part

\* C11: for a five-field expression validateCronExpression returns
\* {valid: true} exactly when each of the five fields passes alone;
\* otherwise it returns one error, that of the first field, in the order
\* minute, hour, day, month, weekday, that does not pass, with that field's
\* name in the message, whatever the later fields hold.
C11_FirstInvalidField ==
    (Validated /\ parseResult.valid) =>
        /\ \E checks \in {C11_Checks} :
              /\ validationResult.valid <=> \A i \in 1..5 : checks[i].valid
              /\ ~validationResult.valid =>
                    \E i \in 1..5 :
                        /\ ~checks[i].valid
                        /\ \A j \in 1..(i - 1) : checks[j].valid
                        /\ C11_SameError(checks[i])
                        /\ checks[i].fieldName = C11_Order[i]
        /\ shape.kind = "fields" =>
              IF shape.field = 0 THEN validationResult.valid
              ELSE /\ ~validationResult.valid
                   /\ validationResult.fieldName = C11_Order[shape.field]
                   /\ validationResult.error = FieldTermErrors[shape.a]

\* An expression whose minute passes, whose hour holds an inverted range and
\* whose weekday holds a zero step: the hour's range error is the one
\* returned.
C11_Witness ==
    /\ Validated
    /\ shape.kind = "fields"
    /\ parseResult.fields.minute = Star
    /\ parseResult.fields.hour = <<"5", "-", "1">>
    /\ parseResult.fields.weekday = <<"*", "/", "0">>
    /\ ~validationResult.valid
    /\ validationResult.fieldName = "hour"
    /\ validationResult.error = "Invalid range in ${fieldName}"
Rendered == pc = "end" /\ errorProps # Pending

\* C12: when validateCronExpression fails because of field F, its result
\* has a property `field` whose value is F, and of the five CronField
\* editors the one of F is given the error message and the other four are
\* given none.
C12_FailingFieldIdentified ==
    (Rendered /\ ~validationResult.valid /\ validationResult.fieldName # "") =>
        /\ propertyOf(validationResult, "field") =
              [kind |-> "value", value |-> validationResult.fieldName]
        /\ \A fieldKey \in DOMAIN errorProps :
              errorProps[fieldKey].isNull <=> fieldKey # validationResult.fieldName
\* The inclusive domains of minute, hour, day of month, month, weekday.
Domains == <<0..59, 0..23, 1..31, 1..12, 0..7>>

\* C13: in each field a plain integer n is accepted exactly when it lies in
\* the field's domain (minute 0-59, hour 0-23, day of month 1-31, month
\* 1-12, weekday 0-7), so 60, 24, day 0 and 32, month 0 and 13, weekday 8
\* and the negative numbers are rejected; a comma list of two integers is
\* accepted exactly when both lie in the domain.
C13_SingleValueDomain ==
    Validated =>
        /\ (shape.kind = "term" /\ shape.base = "value" /\ ~shape.slash) =>
              (validationResult.valid <=> shape.a \in Domains[shape.field])
        /\ shape.kind = "list" =>
              (validationResult.valid <=>
                  (shape.a \in Domains[shape.field] /\ shape.b \in Domains[shape.field]))

\* The day of month 0, one below the domain, has been rejected.
C13_Witness ==
    /\ Validated
    /\ shape.kind = "term" /\ shape.base = "value" /\ ~shape.slash
    /\ shape.field = 3
    /\ shape.a = 0
    /\ expression = <<"*", " ", "*", " ", "0", " ", "*", " ", "*">>
    /\ ~validationResult.valid
    /\ validationResult.error = "Invalid value in ${fieldName}: ${part}"
    /\ validationResult.part = <<"0">>
\* domainMin <= a <= b <= domainMax in field i.
RangeInDomain(i, a, b) == a \in Domains[i] /\ b \in Domains[i] /\ a <= b

\* C14: a range a-b, alone or as the base of a step that is a positive
\* integer, is accepted exactly when domainMin <= a <= b <= domainMax for
\* its field; an inverted range and a range with an endpoint outside the
\* domain are rejected with the error "Invalid range in <field>".
C14_RangeCheck ==
    (/\ Validated
     /\ shape.kind = "term" /\ shape.base = "range"
     /\ shape.slash => shape.step \in PositiveStepTexts) =>
        /\ validationResult.valid <=> RangeInDomain(shape.field, shape.a, shape.b)
        /\ ~validationResult.valid =>
              /\ validationResult.error = "Invalid range in ${fieldName}"
              /\ validationResult.fieldName = C11_Order[shape.field]

\* The hour range 23-0, both endpoints in the domain and inverted, has been
\* rejected as the base of a step.
C14_Witness ==
    /\ Validated
    /\ shape.kind = "term" /\ shape.base = "range" /\ shape.slash
    /\ shape.field = 2 /\ shape.a = 23 /\ shape.b = 0
    /\ shape.step = <<"2">>
    /\ expression = <<"*", " ", "2", "3", "-", "0", "/", "2", " ", "*", " ", "*", " ", "*">>
    /\ ~validationResult.valid
    /\ validationResult.error = "Invalid range in ${fieldName}"
    /\ validationResult.fieldName = "hour"

\* The base of a step that validateField accepts: the wildcard, a value of
\* the domain, a range within the domain.
BaseInDomain ==
    \/ shape.base = "*"
    \/ shape.base = "value" /\ shape.a \in Domains[shape.field]
    \/ shape.base = "range" /\ RangeInDomain(shape.field, shape.a, shape.b)

\* C15: a term with a slash is accepted exactly when its step is a positive
\* integer and its base is the wildcard, a range within the domain or a value
\* of the domain; a step that is zero, negative, not a number or empty is
\* rejected with the error "Invalid step value in <field>", whatever the
\* base is, so the step is checked before the base.
C15_StepCheck ==
    (Validated /\ shape.kind = "term" /\ shape.slash) =>
        /\ validationResult.valid <=> (shape.step \in PositiveStepTexts /\ BaseInDomain)
        /\ shape.step \in BadStepTexts =>
              /\ ~validationResult.valid
              /\ validationResult.error = "Invalid step value in ${fieldName}"
              /\ validationResult.fieldName = C11_Order[shape.field]

\* A term whose range is inverted and whose step is zero has been rejected
\* for its step.
C15_Witness ==
    /\ Validated
    /\ shape.kind = "term" /\ shape.slash /\ shape.base = "range"
    /\ shape.a > shape.b
    /\ shape.step = <<"0">>
    /\ ~validationResult.valid
    /\ validationResult.error = "Invalid step value in ${fieldName}"
    /\ validationResult.fieldName = "month"
\* The text of the field the shape is about, and the values of its domain
\* that the matcher matches against it.
ShapeField == parseResult.fields[C11_Order[shape.field]]

Matched ==
    {v \in Domains[shape.field] :
        matchesField(v, ShapeField, FIELD_RANGES[C11_Order[shape.field]])}

\* C16: a field in which the wildcard is one of several comma-separated
\* terms ("*,5") passes validation in every field, as "*" alone does, and
\* the matcher matches every value of the domain against it.
C16_WildcardInList ==
    (Validated /\ shape.kind = "wildcard list") =>
        /\ validationResult.valid
        /\ Matched = Domains[shape.field]

\* The least value of the domain of field i.
DomainMin(i) == CHOOSE v \in Domains[i] : \A w \in Domains[i] : v <= w

\* Every n-th value of the domain of field i, from its least value.
EveryNth(i, n) == {v \in Domains[i] : (v - DomainMin(i)) % n = 0}

\* C17: in every field the values that the step on the wildcard, */N,
\* matches are the least value of the domain and every N-th value after it.
C17_WildcardStepFromMinimum ==
    (/\ Validated
     /\ shape.kind = "term" /\ shape.base = "*" /\ shape.slash
     /\ shape.step \in PositiveStepTexts) =>
        \E n \in 1..MaxStep : shape.step = IntegerText(n) /\ Matched = EveryNth(shape.field, n)
Parsed == pc \in {"validate", "describe", "render", "end"}

\* The canonical five fields of the aliases, in the order of AliasList.
CanonicalFields ==
    <<<<<<"0">>, <<"0">>, <<"1">>, <<"1">>, Star>>,
      <<<<"0">>, <<"0">>, <<"1">>, <<"1">>, Star>>,
      <<<<"0">>, <<"0">>, <<"1">>, Star, Star>>,
      <<<<"0">>, <<"0">>, Star, Star, <<"0">>>>,
      <<<<"0">>, <<"0">>, Star, Star, Star>>,
      <<<<"0">>, Star, Star, Star, Star>>,
      <<Star, Star, Star, Star, Star>>>>

\* The parse returned these five tokens as minute, hour, day, month, weekday.
ParsedAs(tokens) ==
    /\ ~parseResult.threw
    /\ parseResult.valid
    /\ \A i \in 1..5 : parseResult.fields[C11_Order[i]] = tokens[i]

FieldCountError ==
    /\ ~parseResult.threw
    /\ ~parseResult.valid
    /\ parseResult.error = "Cron expression must have exactly 5 fields"

\* C18: parseCronExpression succeeds exactly when the text, once an alias is
\* expanded and the text trimmed, splits on runs of white space into five
\* tokens, and then returns those tokens as they are, by position, as
\* minute, hour, day, month, weekday; for any other text it returns
\* {valid: false} with the error that exactly 5 fields are required.
C18_FiveTokens ==
    Parsed =>
        /\ shape.kind = "tokens" =>
              IF shape.a = 5 THEN ParsedAs([i \in 1..5 |-> Token(i)]) ELSE FieldCountError
        /\ shape.kind = "other" =>
              IF shape.a = 5 THEN ParsedAs(splitWhiteSpace(trim(expression))) ELSE FieldCountError
        /\ shape.kind = "alias" => ParsedAs(CanonicalFields[shape.a])
\* The text is parsed, validated and, from every reference, searched as the
\* canonical text is.
TreatedAs(canonical) ==
    /\ parseResult = parseCronExpression(canonical)
    /\ validationResult = validateCronExpression(canonical)
    /\ \A from \in ReferenceInstants :
          getNextExecutionTime(expression, from) = getNextExecutionTime(canonical, from)

\* C19: each of the seven aliases, in any letter case and between white
\* space, is parsed, validated and searched as its canonical five-field
\* text; a text that is not one of them is not replaced: what is split into
\* fields is the text itself, trimmed.
C19_AliasExpansion ==
    Validated =>
        /\ shape.kind = "alias" =>
              /\ ParsedAs(CanonicalFields[shape.a])
              /\ validationResult.valid
              /\ TreatedAs(FieldsText(CanonicalFields[shape.a]))
        /\ shape.kind # "alias" =>
              parseResult = parseParts(splitWhiteSpace(trim(expression)))
Described == pc \in {"render", "end"}

\* validateCronExpression returned {valid: false, ...}.
Rejected == ~validationResult.threw /\ ~validationResult.valid

\* validateCronExpression returned {valid: true}.
Accepted == ~validationResult.threw /\ validationResult.valid

\* getHumanReadableDescription returned the literal.
DescribedInvalid ==
    /\ ~description.threw
    /\ description.text =
          <<"I", "n", "v", "a", "l", "i", "d", " ", "c", "r", "o", "n", " ",
            "e", "x", "p", "r", "e", "s", "s", "i", "o", "n">>

\* C20: getHumanReadableDescription returns the literal "Invalid cron
\* expression" exactly when validateCronExpression rejects the expression,
\* and for an expression the validation accepts it returns a text that is
\* not empty and is not that literal.
C20_InvalidLiteral ==
    Described =>
        /\ DescribedInvalid <=> Rejected
        /\ Accepted => (~description.threw /\ description.text # <<>> /\ ~DescribedInvalid)

\* A valid expression with a range, a step and values has been described.
C20_Witness ==
    /\ Described
    /\ shape.kind = "valid"
    /\ expression = <<"0", "-", "3", "0", " ", "*", "/", "2", " ", "1", "5", " ", "6", " ", "7">>
    /\ Accepted
    /\ ~description.threw
    /\ Len(description.text) > 23
----------------------------------------------------------------------------
(* C21..C29: descriptions, the random generator, the matcher, the loop,    *)
(* the editor.                                                             *)

\* The text holds the piece somewhere.
Contains(text, piece) ==
    \E i \in 1..(Len(text) - Len(piece) + 1) : SubSeq(text, i, i + Len(piece) - 1) = piece

\* A single value: no wildcard, list, range or step.
IsSingle(field) ==
    field # Star /\ ~includes(field, ",") /\ ~includes(field, "-") /\ ~includes(field, "/")

\* "At HH:MM" and one clause for each of day of month, month and weekday
\* that is not the wildcard, joined with ", ".
AtTimeAndClauses(p) ==
    join(<<atTime(p)>> \o dayDescription(p.day) \o monthDescription(p.month)
             \o weekdayDescription(p.weekday))

\* C21: the description of a valid expression that is no alias and whose
\* minute and hour are single values is "At HH:MM" followed by one clause
\* for each of day of month, month and weekday that is not the wildcard,
\* joined with ", ".
C21_AtTimeThenClauses ==
    (/\ Described /\ Accepted /\ shape.kind \in {"valid", "term", "list"}
     /\ IsSingle(parseResult.fields.minute) /\ IsSingle(parseResult.fields.hour)) =>
        /\ ~description.threw
        /\ description.text = AtTimeAndClauses(parseResult.fields)

\* C22: the description of a valid expression that is no alias holds the
\* clause "every minute" when the minute field is the wildcard, whatever the
\* hour field is, and "every N minutes" when the minute field is */N.
C22_EveryMinuteClause ==
    (Described /\ Accepted /\ shape.kind \in {"valid", "term", "list"}) =>
        /\ parseResult.fields.minute = Star =>
              Contains(description.text, <<"e", "v", "e", "r", "y", " ", "m", "i", "n", "u", "t", "e">>)
        /\ \A n \in {2, 3, 15} :
              parseResult.fields.minute = <<"*", "/">> \o IntegerText(n) =>
                  Contains(description.text,
                           <<"e", "v", "e", "r", "y", " ">> \o IntegerText(n) \o <<" ", "m", "i", "n", "u", "t", "e", "s">>)
\* C23: every text generateRandomCron returns, whatever its draws are, is
\* five fields separated by white space and passes validateCronExpression.
C23_RandomIsValid ==
    (Validated /\ shape.kind = "random") =>
        /\ Len(splitWhiteSpace(trim(expression))) = 5
        /\ ~parseResult.threw /\ parseResult.valid
        /\ Accepted

\* The range pattern with the latest start and the latest end, 19-23, has
\* been generated and validated.
C23_Witness ==
    /\ Validated
    /\ shape.kind = "random" /\ shape.field = 6 /\ shape.a = 19 /\ shape.b = 4
    /\ expression = <<"0", " ", "1", "9", "-", "2", "3", " ", "*", " ", "*", " ", "*">>
    /\ Accepted
\* C24: an expression with a term that is not a well-formed term of the
\* grammar (trailing characters after the digits as in 5abc and 1.5, more
\* than one "-" as in 1-2-3, more than one "/" as in 1/2/3) is rejected with
\* an error of the field that holds it.
C24_MalformedRejected ==
    (Validated /\ shape.kind = "malformed") =>
        /\ Rejected
        /\ validationResult.fieldName = C11_Order[shape.field]
\* The step of the shape as a number.
ShapeStep == CHOOSE n \in 1..MaxStep : IntegerText(n) = shape.step

\* What the term of the shape denotes: the wildcard every value, */s the
\* multiples of s, a-b/s the values from a to b at a distance from a that is
\* a multiple of s, a/s those from a on, a-b the values from a to b, n the
\* value n.
TermMatches(v) ==
    IF shape.base = "*"
    THEN ~shape.slash \/ v % ShapeStep = 0
    ELSE IF shape.base = "range"
    THEN /\ shape.a <= v /\ v <= shape.b
         /\ shape.slash => (v - shape.a) % ShapeStep = 0
    ELSE IF shape.slash
         THEN v >= shape.a /\ (v - shape.a) % ShapeStep = 0
         ELSE v = shape.a

\* C25: for a field that validation accepts and every value of its domain,
\* matchesField returns true exactly when one of the comma-separated terms
\* matches: the wildcard always, */s when value mod s = 0, a-b/s when
\* a <= value <= b and (value - a) mod s = 0, a/s when value >= a and
\* (value - a) mod s = 0, a-b when a <= value <= b, n when value = n.
C25_MatcherSemantics ==
    (Validated /\ Accepted) =>
        /\ shape.kind = "term" => Matched = {v \in Domains[shape.field] : TermMatches(v)}
        /\ shape.kind = "list" =>
              Matched = {v \in Domains[shape.field] : v = shape.a \/ v = shape.b}
        /\ shape.kind = "mixed list" =>
              Matched = {v \in Domains[shape.field] :
                            (1 <= v /\ v <= 3) \/ (v >= 5 /\ (v - 5) % 2 = 0)}

\* The minute term 58/2 has been accepted: it matches 58 only, not the even
\* minutes before it.
C25_Witness ==
    /\ Validated /\ Accepted
    /\ shape.kind = "term" /\ shape.base = "value" /\ shape.slash
    /\ shape.field = 1 /\ shape.a = 58 /\ shape.step = <<"2">>
    /\ Matched = {58}
StartOfHour(t) == t - (t % 3600)

StartOfDay(t) == t - (t % 86400)

\* 00:00 of day 1 of the month after that of t.
StartOfNextMonth(t) ==
    StartOfDay(t)
        + 86400 * (DaysInMonth(getFullYear(t), getMonth(t) + 1) - getDate(t) + 1)

\* One pass of the loop that does not return.
C27_Pass == pc = "loop" /\ pc' = "loop"

C28_AcceptedIsSatisfiable ==
    (/\ Validated /\ Accepted
     /\ shape.kind \in {"term", "list", "mixed list", "large step"}) =>
        /\ Matched # {}
        /\ shape.kind = "large step" =>
              getNextExecutionTime(expression, fromDate).kind = "date"
\* After an event and the effects it set off.
Settled == effects = <<>>

\* C29: once the effects have settled after text T was put into the
\* expression input, the App is shown, and if parseCronExpression(T) is valid
\* the field editors hold the parsed fields and the input holds them joined
\* by single spaces, and if it is not the field editors hold what they held
\* and the input holds T; after a field edit the input holds the five fields
\* joined by single spaces.
C29_Synchronised ==
    (Settled /\ event.kind \in {"expression", "field"}) =>
        /\ mounted
        /\ IF event.kind = "field"
           THEN state.cronExpression = FieldsText(<<state.fields.minute, state.fields.hour,
                                                   state.fields.day, state.fields.month,
                                                   state.fields.weekday>>)
           ELSE \E p \in {parseCronExpression(event.value)} :
                   IF ~p.threw /\ p.valid
                   THEN /\ state.fields = p.fields
                        /\ state.cronExpression = FieldsText(<<p.fields.minute, p.fields.hour,
                                                              p.fields.day, p.fields.month,
                                                              p.fields.weekday>>)
                   ELSE /\ state.fields = event.before
                        /\ state.cronExpression = event.value
====
